---------------------------- MODULE Spec2Model ----------------------------
(***************************************************************************)
(* A model of the streaming decoders, retry loops, cookie cache and Flask  *)
(* routing of the redmoonAPI clients.                                      *)
(*                                                                         *)
(* Text is a sequence of one-character strings.  A response body is a      *)
(* sequence of bytes; the bytes of an ASCII character are the character    *)
(* itself and the two bytes of U+00E9 are LEAD, CONT.                      *)
(***************************************************************************)
EXTENDS Integers, Sequences, FiniteSets, TLC

\* ------------------------------------------------------------------ bounds
\* How many pieces (lines, or an unterminated tail) a response body is made of.
MaxLines == 2
\* Where the model stops counting the chunks a decoder has seen.
ChunkCountCap == 1

\* ------------------------------------------------------------- characters
NL == "\n"
QUOTE == "\""
BACKSLASH == "\\"
COLON == ":"
SPACE == " "
FORMFEED == "\f"
LEAD == "0xC3"
CONT == "0xA9"
EACUTE == "U+00E9"

\* str.isalnum-like class of the regular expressions [a-zA-Z0-9] over the alphabet
AlnumChars == {"0", "a", "d", "e", "f", "n", "x"}
\* \d over the alphabet
DigitChars == {"0"}

VARIABLES
  decoder,      \* which decoder consumes the response
  debug,        \* the client's debug flag
  body,         \* the bytes of the response body
  pos,          \* how many bytes of the body have been delivered as chunks
  worstCut,     \* where chunk boundaries fell so far: "line" (only after a
                \* newline), "char" (inside a line, between two characters)
                \* or "byte" (inside a multi-byte character)
  st,           \* the decoder's local variables
  phase,        \* "streaming", "returned" or "raised"
  \* one call of a client method that posts with retries
  client,       \* the method that is running
  pc,           \* "loop" inside the while loop, "done" once the call has ended
  retries,      \* the local variable retries
  posts,        \* how many POST requests the call has issued
  response,     \* the status of the local variable response, "unbound" before
                \* its first assignment
  outcomes,     \* what each attempt of the call obtained, in order
  result,       \* what the call returned or raised
  \* one SciraAuth object and the cookie file at its cookies_path
  now,                \* time.time(), in whole seconds
  file,               \* the cookie file: whether it exists, and its text
  cookies,            \* self.cookies
  last_refresh_time,  \* self.last_refresh_time
  authCall,           \* the last call on the object: what it was, what it did,
                      \* how long after the last fetch that got 200 it came
                      \* (elapsed = -1: after none) and how many cookies that
                      \* fetch had obtained
  fetched,            \* the last fetch of the site that got 200: when, and the
                      \* cookies it obtained (at = -1: none since construction)
  fileHolds,          \* what was written to the file last, and by whom
  \* the Flask application, one copy of it in each gunicorn worker process
  model_instances,    \* the cache of get_model_instance of each worker
  request,            \* the request served last, the worker that served it and
                      \* the web client that sent it
  answer,             \* the status and body answered to it
  created,            \* the model ids the request added to the cache
  called,             \* the client operations the request invoked, each with
                      \* the messages of the payload it sent upstream
  \* one conversation: a SciraChatAPI object, a SciraChat object of
  \* simple_scira_chat or of scira_chat_simple, or a run of scira_chat.chat_mode
  program,               \* which of them
  chat_model,            \* self.model
  conversation_history,  \* the list of messages kept
  history_file,          \* the messages saved in the history file of chat_mode
  turn,                  \* how many messages the user has sent
  iterator,              \* the iterator SciraChatAPI.chat returned last
  exchange,              \* the last call: its arguments, the messages of the
                         \* payload it posted, what it returned, and the
                         \* history and model it found
  \* one call of format_response_json of blackbox_request
  response_text,         \* the body passed to it
  formatted,             \* what it returned
  \* one call of ZaiClient._parse_sse_response
  sse_lines,             \* the lines of the response text
  sse_parsed             \* what it returned

streamVars == <<decoder, debug, body, pos, worstCut, st, phase>>

retryVars == <<client, pc, retries, posts, response, outcomes, result>>

authVars == <<now, file, cookies, last_refresh_time, authCall, fetched, fileHolds>>

appVars == <<model_instances, request, answer, created, called>>

conversationVars ==
  <<program, chat_model, conversation_history, history_file, turn, iterator, exchange>>

blackboxVars == <<response_text, formatted>>

zaiVars == <<sse_lines, sse_parsed>>

vars == <<decoder, debug, body, pos, worstCut, st, phase,
          client, pc, retries, posts, response, outcomes, result,
          now, file, cookies, last_refresh_time, authCall, fetched, fileHolds,
          model_instances, request, answer, created, called,
          program, chat_model, conversation_history, history_file, turn, iterator,
          exchange, response_text, formatted, sse_lines, sse_parsed>>

\* what the actions of one component leave alone
notStream == <<retryVars, authVars, appVars, conversationVars, blackboxVars, zaiVars>>
notRetry == <<streamVars, authVars, appVars, conversationVars, blackboxVars, zaiVars>>
notAuth == <<streamVars, retryVars, appVars, conversationVars, blackboxVars, zaiVars>>
notApp == <<streamVars, retryVars, authVars, conversationVars, blackboxVars, zaiVars>>
notConversation == <<streamVars, retryVars, authVars, appVars, blackboxVars, zaiVars>>
notBlackbox == <<streamVars, retryVars, authVars, appVars, conversationVars, zaiVars>>
notZai == <<streamVars, retryVars, authVars, appVars, conversationVars, blackboxVars>>

\* --------------------------------------------------------- string helpers
RECURSIVE IndexOfFrom(_, _, _)
IndexOfFrom(s, c, i) ==
  IF i > Len(s) THEN 0
  ELSE IF s[i] = c THEN i
  ELSE IndexOfFrom(s, c, i + 1)

\* first index of c in s, 0 when absent (c in s  <=>  IndexOf(s, c) # 0)
IndexOf(s, c) == IndexOfFrom(s, c, 1)

Contains(s, c) == IndexOf(s, c) # 0

\* s.split(c, 1) when c is in s: <<before, after>>
SplitFirst(s, c) ==
  LET i == IndexOf(s, c)
  IN  <<SubSeq(s, 1, i - 1), SubSeq(s, i + 1, Len(s))>>

RECURSIVE LStrip(_, _)
LStrip(s, cs) ==
  IF s # <<>> /\ Head(s) \in cs THEN LStrip(Tail(s), cs) ELSE s

RECURSIVE RStrip(_, _)
RStrip(s, cs) ==
  IF s # <<>> /\ s[Len(s)] \in cs THEN RStrip(SubSeq(s, 1, Len(s) - 1), cs) ELSE s

\* str.strip(): the whitespace of the alphabet
Strip(s) == RStrip(LStrip(s, {SPACE, FORMFEED, NL}), {SPACE, FORMFEED, NL})

\* str.strip('"')
StripQuotes(s) == RStrip(LStrip(s, {QUOTE}), {QUOTE})

\* text.replace('\\n', '\n'): every backslash followed by n becomes a newline
RECURSIVE ReplaceEscapedNewlines(_)
ReplaceEscapedNewlines(s) ==
  IF s = <<>> THEN <<>>
  ELSE IF Len(s) >= 2 /\ s[1] = BACKSLASH /\ s[2] = "n"
       THEN <<NL>> \o ReplaceEscapedNewlines(SubSeq(s, 3, Len(s)))
       ELSE <<Head(s)>> \o ReplaceEscapedNewlines(Tail(s))

\* bytes.decode('utf-8'): [ok |-> FALSE] is UnicodeDecodeError
RECURSIVE utf8_decode(_)
utf8_decode(bs) ==
  IF bs = <<>> THEN [ok |-> TRUE, s |-> <<>>]
  ELSE IF Head(bs) = CONT THEN [ok |-> FALSE, s |-> <<>>]
  ELSE IF Head(bs) = LEAD
       THEN IF Len(bs) >= 2 /\ bs[2] = CONT
            THEN LET r == utf8_decode(SubSeq(bs, 3, Len(bs)))
                 IN  [ok |-> r.ok, s |-> <<EACUTE>> \o r.s]
            ELSE [ok |-> FALSE, s |-> <<>>]
  ELSE LET r == utf8_decode(Tail(bs))
       IN  [ok |-> r.ok, s |-> <<Head(bs)>> \o r.s]

\* ------------------------------------------------------------ json.loads
\* The JSON grammar restricted to the alphabet: strings (with the escapes
\* \" \\ \n \f), the numbers 0 and 0e0.., and objects of at most one member.
\* A value is returned as kind, str (the text of a string) and flat (a
\* canonical sequence of tokens, so that values compare).
JsonFail == [ok |-> FALSE, kind |-> "none", str |-> <<>>, flat |-> <<>>, i |-> 0]

RECURSIVE JsonSkipWs(_, _)
JsonSkipWs(s, i) ==
  IF i <= Len(s) /\ s[i] \in {SPACE, NL} THEN JsonSkipWs(s, i + 1) ELSE i

\* the characters of a string whose opening quote is before index j
RECURSIVE JsonScanString(_, _, _)
JsonScanString(s, j, acc) ==
  IF j > Len(s) THEN JsonFail
  ELSE IF s[j] = QUOTE
       THEN [ok |-> TRUE, kind |-> "str", str |-> acc,
             flat |-> <<"str(">> \o acc \o <<")">>, i |-> j + 1]
  ELSE IF s[j] = BACKSLASH
       THEN IF j + 1 > Len(s) THEN JsonFail
            ELSE IF s[j + 1] \in {QUOTE, BACKSLASH}
                 THEN JsonScanString(s, j + 2, Append(acc, s[j + 1]))
            ELSE IF s[j + 1] = "n" THEN JsonScanString(s, j + 2, Append(acc, NL))
            ELSE IF s[j + 1] = "f" THEN JsonScanString(s, j + 2, Append(acc, FORMFEED))
            ELSE JsonFail
  ELSE IF s[j] \in {NL, FORMFEED} THEN JsonFail
  ELSE JsonScanString(s, j + 1, Append(acc, s[j]))

RECURSIVE JsonSkipZeros(_, _)
JsonSkipZeros(s, i) ==
  IF i <= Len(s) /\ s[i] = "0" THEN JsonSkipZeros(s, i + 1) ELSE i

\* a number that starts at index i, where s[i] = "0"
JsonScanNumber(s, i) ==
  IF i + 2 <= Len(s) /\ s[i + 1] = "e" /\ s[i + 2] = "0"
  THEN [ok |-> TRUE, kind |-> "float", str |-> <<>>, flat |-> <<"float 0.0">>,
        i |-> JsonSkipZeros(s, i + 2)]
  ELSE [ok |-> TRUE, kind |-> "int", str |-> <<>>, flat |-> <<"int 0">>, i |-> i + 1]

RECURSIVE JsonScanOnce(_, _)
\* an object whose opening brace is before index i
JsonScanObject(s, i) ==
  LET j == JsonSkipWs(s, i)
  IN  IF j > Len(s) THEN JsonFail
      ELSE IF s[j] = "}"
           THEN [ok |-> TRUE, kind |-> "dict", str |-> <<>>, flat |-> <<"{", "}">>, i |-> j + 1]
      ELSE IF s[j] # QUOTE THEN JsonFail
      ELSE LET key == JsonScanString(s, j + 1, <<>>)
               k == JsonSkipWs(s, key.i)
           IN  IF ~key.ok \/ k > Len(s) \/ s[k] # COLON THEN JsonFail
               ELSE LET val == JsonScanOnce(s, JsonSkipWs(s, k + 1))
                        e == JsonSkipWs(s, val.i)
                    IN  IF ~val.ok \/ e > Len(s) \/ s[e] # "}" THEN JsonFail
                        ELSE [ok |-> TRUE, kind |-> "dict", str |-> <<>>,
                              flat |-> <<"{">> \o key.flat \o val.flat \o <<"}">>,
                              i |-> e + 1]

\* the value that starts exactly at index i
JsonScanOnce(s, i) ==
  IF i > Len(s) THEN JsonFail
  ELSE IF s[i] = QUOTE THEN JsonScanString(s, i + 1, <<>>)
  ELSE IF s[i] = "{" THEN JsonScanObject(s, i + 1)
  ELSE IF s[i] = "0" THEN JsonScanNumber(s, i)
  ELSE JsonFail

\* json.loads(s): [ok |-> FALSE] is JSONDecodeError
json_loads(s) ==
  LET r == JsonScanOnce(s, JsonSkipWs(s, 1))
  IN  IF r.ok /\ JsonSkipWs(s, r.i) = Len(s) + 1 THEN r ELSE JsonFail


\* ------------------------------------------------------ utils.process_stream
\* A yielded item.  Every item has the three fields, so that items compare:
\* prefix is the tag where the source's dict has one, data is the payload.
Item(type, prefix, data) == [type |-> type, prefix |-> prefix, data |-> data]

NoItem == [some |-> FALSE, item |-> Item("none", <<>>, <<>>)]

SomeItem(it) == [some |-> TRUE, item |-> it]

\* length of the longest prefix of s made of characters of cs
RECURSIVE RunLength(_, _)
RunLength(s, cs) ==
  IF s # <<>> /\ Head(s) \in cs THEN 1 + RunLength(Tail(s), cs) ELSE 0

\* re.match('^(CS+):(.*)$', line): the groups, or ok = FALSE
PrefixMatch(line, cs) ==
  LET n == RunLength(line, cs)
  IN  IF n >= 1 /\ n < Len(line) /\ line[n + 1] = COLON
      THEN [ok |-> TRUE, prefix |-> SubSeq(line, 1, n),
            content |-> SubSeq(line, n + 2, Len(line))]
      ELSE [ok |-> FALSE, prefix |-> <<>>, content |-> <<>>]

parse_stream_line(line) ==
  IF line = <<>> \/ Strip(line) = <<>> THEN NoItem
  ELSE LET m == PrefixMatch(line, AlnumChars)
       IN  IF ~m.ok THEN SomeItem(Item("unknown", <<>>, line))
           ELSE LET j == json_loads(m.content)
                IN  IF j.ok THEN SomeItem(Item("json", m.prefix, j.flat))
                    ELSE SomeItem(Item("text", m.prefix, m.content))

\* the while '\n' in buffer loop of process_stream
RECURSIVE process_stream_lines(_)
process_stream_lines(s) ==
  IF ~Contains(s.buffer, NL) THEN s
  ELSE LET sp == SplitFirst(s.buffer, NL)
           parsed == parse_stream_line(sp[1])
       IN  process_stream_lines(
             [s EXCEPT !.buffer = sp[2],
                       !.items = IF parsed.some THEN Append(@, parsed.item) ELSE @])

\* process_stream with buffer = chunk in place of buffer += chunk
process_stream_chunk_no_buffer(s, chunk) ==
  IF chunk = <<>> THEN s
  ELSE LET d == utf8_decode(chunk)
       IN  IF ~d.ok THEN [s EXCEPT !.raised = TRUE]
           ELSE process_stream_lines([s EXCEPT !.buffer = d.s])

\* one turn of the for loop of process_stream; raised is the UnicodeDecodeError
\* that chunk.decode lets escape from the generator
process_stream_chunk(s, chunk) ==
  IF chunk = <<>> THEN s
  ELSE LET d == utf8_decode(chunk)
       IN  IF ~d.ok THEN [s EXCEPT !.raised = TRUE]
           ELSE process_stream_lines([s EXCEPT !.buffer = @ \o d.s])

\* --------------------------------------- SciraChatAPI._process_chat_stream
\* chat_stream_line with the finish branch taken for tag 'e' only
chat_stream_line_e_only(line, dbg) ==
  IF Contains(line, COLON)
  THEN LET sp == SplitFirst(line, COLON)
           prefix == sp[1]
           content == sp[2]
           j == json_loads(content)
       IN  IF prefix = <<"f">> /\ content # <<>> /\ Head(content) = "{"
           THEN IF ~j.ok THEN [y |-> NoItem, add |-> <<>>]
                ELSE [y |-> SomeItem(Item("message_id", <<>>, j.flat)), add |-> <<>>]
           ELSE IF prefix = <<"0">>
           THEN IF content # <<>> /\ Head(content) = QUOTE /\ content[Len(content)] = QUOTE
                THEN IF j.ok
                     THEN [y |-> SomeItem(Item("content", <<>>, j.str)), add |-> j.str]
                     ELSE [y |-> SomeItem(Item("error", <<>>, line)), add |-> <<>>]
                ELSE [y |-> SomeItem(Item("content", <<>>, content)), add |-> content]
           ELSE IF prefix = <<"e">>
           THEN IF ~j.ok THEN [y |-> NoItem, add |-> <<>>]
                ELSE IF dbg /\ j.kind # "dict"
                     THEN [y |-> SomeItem(Item("error", <<>>, line)), add |-> <<>>]
                ELSE [y |-> SomeItem(Item("finish", <<>>, j.flat)), add |-> <<>>]
           ELSE [y |-> SomeItem(Item("unknown", prefix, content)), add |-> <<>>]
  ELSE [y |-> SomeItem(Item("text", <<>>, line)), add |-> <<>>]

\* what one non-blank line yields, and the text it adds to the assistant message
chat_stream_line(line, dbg) ==
  IF Contains(line, COLON)
  THEN LET sp == SplitFirst(line, COLON)
           prefix == sp[1]
           content == sp[2]
           j == json_loads(content)
       IN  IF prefix = <<"f">> /\ content # <<>> /\ Head(content) = "{"
           THEN IF ~j.ok THEN [y |-> NoItem, add |-> <<>>]
                ELSE IF dbg /\ j.kind # "dict"
                     THEN [y |-> SomeItem(Item("error", <<>>, line)), add |-> <<>>]
                ELSE [y |-> SomeItem(Item("message_id", <<>>, j.flat)), add |-> <<>>]
           ELSE IF prefix = <<"0">>
           THEN IF content # <<>> /\ Head(content) = QUOTE /\ content[Len(content)] = QUOTE
                THEN IF j.ok
                     THEN [y |-> SomeItem(Item("content", <<>>, j.str)), add |-> j.str]
                     ELSE [y |-> SomeItem(Item("error", <<>>, line)), add |-> <<>>]
                ELSE [y |-> SomeItem(Item("content", <<>>, content)), add |-> content]
           ELSE IF prefix = <<"e">> \/ prefix = <<"d">>
           THEN IF ~j.ok THEN [y |-> NoItem, add |-> <<>>]
                ELSE IF dbg /\ j.kind # "dict"
                     THEN [y |-> SomeItem(Item("error", <<>>, line)), add |-> <<>>]
                ELSE [y |-> SomeItem(Item("finish", <<>>, j.flat)), add |-> <<>>]
           ELSE [y |-> SomeItem(Item("unknown", prefix, content)), add |-> <<>>]
  ELSE [y |-> SomeItem(Item("text", <<>>, line)), add |-> <<>>]

\* the while '\n' in buffer loop of _process_chat_stream
RECURSIVE chat_stream_lines(_, _)
chat_stream_lines(s, dbg) ==
  IF ~Contains(s.buffer, NL) THEN s
  ELSE LET sp == SplitFirst(s.buffer, NL)
           line == sp[1]
       IN  IF Strip(line) = <<>>
           THEN chat_stream_lines([s EXCEPT !.buffer = sp[2]], dbg)
           ELSE LET r == chat_stream_line(line, dbg)
                IN  chat_stream_lines(
                      [s EXCEPT !.buffer = sp[2],
                                !.items = IF r.y.some THEN Append(@, r.y.item) ELSE @,
                                !.text = @ \o r.add], dbg)

\* one turn of the for loop of _process_chat_stream: a chunk that does not
\* decode is skipped (except UnicodeDecodeError: continue)
chat_stream_chunk(s, chunk, dbg) ==
  IF chunk = <<>> THEN s
  ELSE LET d == utf8_decode(chunk)
       IN  IF ~d.ok THEN s
           ELSE chat_stream_lines([s EXCEPT !.buffer = @ \o d.s], dbg)

\* ------------------------------- SciraChat._process_response (simple_scira_chat)
\* process_response_line without the json.loads of a quoted payload
process_response_line_raw(line) ==
  IF Contains(line, COLON)
  THEN LET sp == SplitFirst(line, COLON)
       IN  IF sp[1] = <<"0">> THEN sp[2] ELSE <<>>
  ELSE <<>>

\* the text one non-blank line adds to full_response
process_response_line(line) ==
  IF Contains(line, COLON)
  THEN LET sp == SplitFirst(line, COLON)
           prefix == sp[1]
           content == sp[2]
       IN  IF prefix = <<"0">>
           THEN IF content # <<>> /\ Head(content) = QUOTE /\ content[Len(content)] = QUOTE
                THEN LET j == json_loads(content)
                     IN  IF j.ok THEN j.str ELSE content
                ELSE content
           ELSE <<>>
  ELSE <<>>

RECURSIVE process_response_lines(_)
process_response_lines(s) ==
  IF ~Contains(s.buffer, NL) THEN s
  ELSE LET sp == SplitFirst(s.buffer, NL)
           line == sp[1]
       IN  IF Strip(line) = <<>>
           THEN process_response_lines([s EXCEPT !.buffer = sp[2]])
           ELSE process_response_lines(
                  [s EXCEPT !.buffer = sp[2], !.text = @ \o process_response_line(line)])

\* one turn of the for loop of _process_response: chunk_count counts every
\* turn (it is read only as chunk_count > 0 and, for logging, chunk_count <= 3,
\* so the model stops counting at ChunkCountCap); a chunk that does not decode
\* is skipped
process_response_chunk(s, chunk) ==
  LET c == [s EXCEPT !.chunk_count = IF @ < ChunkCountCap THEN @ + 1 ELSE @]
  IN  IF chunk = <<>> THEN c
      ELSE LET d == utf8_decode(chunk)
           IN  IF ~d.ok THEN c
               ELSE process_response_lines([c EXCEPT !.buffer = @ \o d.s])

\* re.findall(r'"([^"]*)"', buffer)
RECURSIVE QuotedRuns(_)
QuotedRuns(s) ==
  LET i == IndexOf(s, QUOTE)
  IN  IF i = 0 THEN <<>>
      ELSE LET rest == SubSeq(s, i + 1, Len(s))
               j == IndexOf(rest, QUOTE)
           IN  IF j = 0 THEN <<>>
               ELSE <<SubSeq(rest, 1, j - 1)>> \o QuotedRuns(SubSeq(rest, j + 1, Len(rest)))

\* max(runs, key=len): the first of the longest
RECURSIVE LongestOf(_)
LongestOf(runs) ==
  IF Len(runs) = 1 THEN runs[1]
  ELSE LET r == LongestOf(Tail(runs))
       IN  IF Len(runs[1]) >= Len(r) THEN runs[1] ELSE r

\* a quoted run is used as the fallback response only when longer than this
FallbackMinLen == 10

\* the code after the for loop of _process_response: the returned text
process_response_end(s) ==
  IF s.text = <<>> /\ s.chunk_count > 0 /\ s.buffer # <<>>
  THEN LET runs == QuotedRuns(s.buffer)
       IN  IF runs # <<>> /\ Len(LongestOf(runs)) > FallbackMinLen
           THEN [s EXCEPT !.text = LongestOf(runs)]
           ELSE s
  ELSE s

\* ------------------------------------------- UncovrClient.send_message
\* chunk_text.split('\n')
RECURSIVE SplitAll(_, _)
SplitAll(s, c) ==
  IF ~Contains(s, c) THEN <<s>>
  ELSE LET sp == SplitFirst(s, c) IN <<sp[1]>> \o SplitAll(sp[2], c)

\* what one line of a chunk adds to text_response
uncovr_line(line) ==
  IF Strip(line) = <<>> THEN <<>>
  ELSE LET m == PrefixMatch(line, DigitChars)
       IN  IF m.ok /\ m.prefix = <<"0">>
           THEN ReplaceEscapedNewlines(StripQuotes(m.content))
           ELSE <<>>

RECURSIVE uncovr_lines(_)
uncovr_lines(lines) ==
  IF lines = <<>> THEN <<>> ELSE uncovr_line(Head(lines)) \o uncovr_lines(Tail(lines))

\* one turn of the for loop of send_message: there is no buffer, every chunk is
\* split into lines on its own; chunk.decode is not guarded
uncovr_chunk(s, chunk) ==
  IF chunk = <<>> THEN s
  ELSE LET d == utf8_decode(chunk)
       IN  IF ~d.ok THEN [s EXCEPT !.raised = TRUE]
           ELSE [s EXCEPT !.text = @ \o uncovr_lines(SplitAll(d.s, NL))]

\* --------------------------------------------------- the response stream
\* The lines a body is made of.  The last two are tails without a newline.
StreamPieces ==
  { <<"0", COLON, "a", NL>>,
    <<"0", COLON, QUOTE, BACKSLASH, "n", QUOTE, NL>>,
    <<"0", COLON, QUOTE, NL>>,
    <<"0", COLON, QUOTE, LEAD, CONT, QUOTE, NL>>,
    <<"f", COLON, "{", "}", NL>>,
    <<"f", COLON, "{", NL>>,
    <<"f", COLON, "a", NL>>,
    <<"e", COLON, "{", "}", NL>>,
    <<"d", COLON, "a", NL>>,
    <<"e", COLON, "0", NL>>,
    <<"x", COLON, "a", NL>>,
    <<"a", NL>>,
    <<SPACE, NL>>,
    <<QUOTE, "a", "a", "a", "a", "a", "a", "a", "a", "a", "a", "a", QUOTE>>,
    <<"0", COLON, "a">> }

RECURSIVE BodiesOf(_)
BodiesOf(n) ==
  IF n = 0 THEN {<<>>}
  ELSE LET shorter == BodiesOf(n - 1)
       IN  shorter \cup {b \o p : b \in shorter, p \in StreamPieces}

Decoders == {"process_stream", "_process_chat_stream", "_process_response", "uncovr"}

\* the locals of a decoder before its for loop: buffer, the yielded items, the
\* accumulated text (assistant_message content, full_response, text_response)
DecoderInit ==
  [buffer |-> <<>>, items |-> <<>>, text |-> <<>>, chunk_count |-> 0, raised |-> FALSE]

\* ------------------------------------------------------------ JSON values
\* A value json can write and read back: a number, a string or an object. An
\* object is the sequence of its <<key, value>> members, in insertion order.
JNum(n) == [t |-> "num", n |-> n, s |-> <<>>, m |-> <<>>]
JStr(s) == [t |-> "str", n |-> 0, s |-> s, m |-> <<>>]
JObj(m) == [t |-> "obj", n |-> 0, s |-> <<>>, m |-> m]

\* ------------------------------------------------------- components at rest
\* no SciraAuth object exists
IdleAuth ==
  /\ now = 0
  /\ file = [exists |-> FALSE, text |-> <<>>]
  /\ cookies = JObj(<<>>)
  /\ last_refresh_time = JNum(0)
  /\ authCall = [op |-> "none", force |-> FALSE, gets |-> 0, ret |-> "none",
                  elapsed |-> -1, had |-> 0]
  /\ fetched = [at |-> -1, cookies |-> JObj(<<>>)]
  /\ fileHolds = [kind |-> "missing", mapping |-> JObj(<<>>), timestamp |-> 0]

\* How many gunicorn worker processes serve requests.
NumWorkers == 2

Workers == 1..NumWorkers

\* no conversation is held
IdleConversation ==
  /\ program = "none"
  /\ chat_model = <<>>
  /\ conversation_history = <<>>
  /\ history_file = <<>>
  /\ turn = 0
  /\ iterator = [open |-> FALSE, content |-> FALSE, abandoned |-> FALSE]
  /\ exchange = [op |-> "none", arg |-> <<>>, payload |-> <<>>, ret |-> "none",
                 before |-> <<>>, before_model |-> <<>>,
                 file_before |-> <<>>, save |-> "not called"]

\* format_response_json is not called
IdleBlackbox ==
  /\ response_text = <<>>
  /\ formatted = [response |-> <<>>, web_search |-> <<>>, phase |-> "idle"]

\* _parse_sse_response is not called
IdleZai ==
  /\ sse_lines = <<>>
  /\ sse_parsed = [content |-> "none", results |-> <<>>, phase |-> "idle"]

\* the application serves no request
IdleApp ==
  /\ model_instances = [w \in Workers |-> <<>>]
  /\ request = [route |-> "none", worker |-> 0, sender |-> "none", shape |-> "none",
                 model_id |-> [given |-> FALSE, value |-> ""],
                 message |-> [given |-> FALSE, value |-> ""]]
  /\ answer = [status |-> 0, body |-> "none"]
  /\ created = {}
  /\ called = {}

\* no call is running
IdleRetry ==
  /\ client = "none"
  /\ pc = "idle"
  /\ retries = 0
  /\ posts = 0
  /\ response = "unbound"
  /\ outcomes = <<>>
  /\ result = "none"

InitStream ==
  /\ IdleRetry
  /\ IdleAuth
  /\ IdleApp
  /\ IdleConversation
  /\ IdleBlackbox
  /\ IdleZai
  /\ decoder \in Decoders
  /\ debug \in (IF decoder = "_process_chat_stream" THEN BOOLEAN ELSE {FALSE})
  /\ body \in BodiesOf(MaxLines)
  /\ pos = 0
  /\ worstCut = "line"
  /\ st = DecoderInit
  /\ phase = "streaming"

\* the next n bytes of the body arrive as one chunk of response.iter_content
Chunk(n) == SubSeq(body, pos + 1, pos + n)

\* where a chunk boundary after p bytes falls
CutAt(p) ==
  IF p = Len(body) \/ body[p] = NL THEN "line"
  ELSE IF body[p] = LEAD THEN "byte"
  ELSE "char"

WorseCut(a, b) ==
  IF "byte" \in {a, b} THEN "byte" ELSE IF "char" \in {a, b} THEN "char" ELSE "line"

Deliver(n, s) ==
  /\ st' = s
  /\ pos' = pos + n
  /\ worstCut' = WorseCut(worstCut, CutAt(pos + n))
  /\ phase' = IF s.raised THEN "raised" ELSE "streaming"
  /\ UNCHANGED <<decoder, debug, body, notStream>>

Streaming(d) == decoder = d /\ phase = "streaming"

process_stream_step ==
  /\ Streaming("process_stream")
  /\ \E n \in 1..(Len(body) - pos) : Deliver(n, process_stream_chunk(st, Chunk(n)))

process_chat_stream_step ==
  /\ Streaming("_process_chat_stream")
  /\ \E n \in 1..(Len(body) - pos) : Deliver(n, chat_stream_chunk(st, Chunk(n), debug))

process_response_step ==
  /\ Streaming("_process_response")
  /\ \E n \in 1..(Len(body) - pos) : Deliver(n, process_response_chunk(st, Chunk(n)))

uncovr_step ==
  /\ Streaming("uncovr")
  /\ \E n \in 1..(Len(body) - pos) : Deliver(n, uncovr_chunk(st, Chunk(n)))

\* what the decoder does when iter_content is exhausted
decoder_end(d, s) == IF d = "_process_response" THEN process_response_end(s) ELSE s

EndOfStream ==
  /\ phase = "streaming"
  /\ pos = Len(body)
  /\ st' = decoder_end(decoder, st)
  /\ phase' = "returned"
  /\ UNCHANGED <<decoder, debug, body, pos, worstCut, notStream>>

NextStream ==
  \/ process_stream_step
  \/ process_chat_stream_step
  \/ process_response_step
  \/ uncovr_step
  \/ EndOfStream

SpecStream == InitStream /\ [][NextStream]_vars

\* the decoder fed the whole body as a single chunk
decoder_chunk(d, s, chunk, dbg) ==
  CASE d = "process_stream" -> process_stream_chunk(s, chunk)
    [] d = "_process_chat_stream" -> chat_stream_chunk(s, chunk, dbg)
    [] d = "_process_response" -> process_response_chunk(s, chunk)
    [] d = "uncovr" -> uncovr_chunk(s, chunk)

WholeBody(d, b, dbg) == decoder_end(d, decoder_chunk(d, DecoderInit, b, dbg))

\* what the consumer of a decoder sees: the items and the text
Output(s) == [items |-> s.items, text |-> s.text]

\* the text of the body
BodyText == utf8_decode(body).s

\* the decoders that keep a buffer across chunks
BufferedDecoders == {"process_stream", "_process_chat_stream", "_process_response"}

\* C1: when every chunk boundary falls between two characters (in the middle
\* of a line, of a tag or of a JSON payload included), process_stream,
\* _process_chat_stream and _process_response raise nothing and end with the
\* items and the text they produce when the whole body arrives as one chunk.
C1_FragmentedChunksAgree ==
  (decoder \in BufferedDecoders /\ worstCut # "byte") =>
    /\ phase # "raised"
    /\ phase = "returned" => Output(st) = Output(WholeBody(decoder, body, debug))

\* C1 witness: a stream cut inside a line has been decoded to its end and has
\* produced text.
C1_Witness ==
  /\ decoder = "_process_chat_stream"
  /\ phase = "returned"
  /\ worstCut = "char"
  /\ st.text # <<>>
  /\ Len(st.items) >= 2

\* C2: however the text of the body is cut into chunks (here: between two
\* characters, so that every chunk decodes), the 'text' UncovrClient.send_message
\* returns is the text it returns for the body as a single chunk.
C2_UncovrFragmentsAgree ==
  (decoder = "uncovr" /\ worstCut # "byte" /\ phase = "returned") =>
    st.text = WholeBody("uncovr", body, debug).text

\* C3: when a chunk boundary falls inside a multi-byte character, the three
\* buffering decoders raise nothing and end with the output of the unsplit body.
C3_ByteSplitLosesNothing ==
  (decoder \in BufferedDecoders /\ worstCut = "byte") =>
    /\ phase # "raised"
    /\ phase = "returned" => Output(st) = Output(WholeBody(decoder, body, debug))

\* ---- the vocabulary of C6 and C7: the lines of a stream
\* the newline-terminated lines of a text, in order
TerminatedLines(text) ==
  LET parts == SplitAll(text, NL) IN SubSeq(parts, 1, Len(parts) - 1)

\* what follows the last newline
UnterminatedTail(text) ==
  LET parts == SplitAll(text, NL) IN parts[Len(parts)]

HasTag(line) == Contains(line, COLON)
TagOf(line) == SplitFirst(line, COLON)[1]
PayloadOf(line) == SplitFirst(line, COLON)[2]

IsQuoted(p) == p # <<>> /\ Head(p) = QUOTE /\ p[Len(p)] = QUOTE

\* the payload of a '0' line, JSON-decoded when it is a quoted JSON string
TextPayload(line) ==
  IF HasTag(line) /\ TagOf(line) = <<"0">>
  THEN IF IsQuoted(PayloadOf(line)) /\ json_loads(PayloadOf(line)).ok
       THEN json_loads(PayloadOf(line)).str
       ELSE PayloadOf(line)
  ELSE <<>>

RECURSIVE ConcatTextPayloads(_)
ConcatTextPayloads(lines) ==
  IF lines = <<>> THEN <<>>
  ELSE TextPayload(Head(lines)) \o ConcatTextPayloads(Tail(lines))

\* the longest double-quoted run of more than FallbackMinLen characters, if any
LongQuotedRun(text) ==
  IF QuotedRuns(text) # <<>> /\ Len(LongestOf(QuotedRuns(text))) > FallbackMinLen
  THEN LongestOf(QuotedRuns(text))
  ELSE <<>>

\* C6 as claimed: for a stream of text (no chunk boundary inside a character),
\* _process_response returns exactly the concatenation of the payloads of the
\* newline-terminated '0' lines, and nothing else of the stream contributes.
C6_OnlyTextLinesContribute ==
  (decoder = "_process_response" /\ phase = "returned" /\ worstCut # "byte") =>
    st.text = ConcatTextPayloads(TerminatedLines(BodyText))

\* C6 amended: the returned text is that concatenation, except that when it is
\* empty the longest double-quoted run of more than 10 characters found in the
\* unterminated tail of the stream, if there is one, is returned in its place.
C6_TextLinesOrFallback ==
  (decoder = "_process_response" /\ phase = "returned" /\ worstCut # "byte") =>
    st.text = IF ConcatTextPayloads(TerminatedLines(BodyText)) # <<>>
              THEN ConcatTextPayloads(TerminatedLines(BodyText))
              ELSE LongQuotedRun(UnterminatedTail(BodyText))

\* C6 witness: a stream with a '0' line, cut inside a line, has been decoded.
C6_Witness ==
  /\ decoder = "_process_response"
  /\ phase = "returned"
  /\ worstCut = "char"
  /\ st.text = <<NL, "a">>

RECURSIVE NonBlank(_)
NonBlank(lines) ==
  IF lines = <<>> THEN <<>>
  ELSE IF Strip(Head(lines)) = <<>> THEN NonBlank(Tail(lines))
  ELSE <<Head(lines)>> \o NonBlank(Tail(lines))

RECURSIVE ItemTypes(_)
ItemTypes(items) ==
  IF items = <<>> THEN <<>> ELSE <<Head(items).type>> \o ItemTypes(Tail(items))

\* the type C7 gives the item of a line
ClaimedType(line) ==
  IF ~HasTag(line) THEN "text"
  ELSE IF TagOf(line) = <<"f">> THEN "message_id"
  ELSE IF TagOf(line) = <<"0">> THEN "content"
  ELSE IF TagOf(line) \in {<<"e">>, <<"d">>} THEN "finish"
  ELSE "unknown"

RECURSIVE ClaimedTypes(_)
ClaimedTypes(lines) ==
  IF lines = <<>> THEN <<>> ELSE <<ClaimedType(Head(lines))>> \o ClaimedTypes(Tail(lines))

\* C7 as claimed: every non-blank line yields exactly one item, typed by its tag
\* alone, in line order.
C7_OneItemPerLine ==
  (decoder = "_process_chat_stream" /\ phase = "returned" /\ worstCut # "byte") =>
    ItemTypes(st.items) = ClaimedTypes(NonBlank(TerminatedLines(BodyText)))

\* the type of the item a line yields, "none" when it yields nothing
AmendedType(line, dbg) ==
  IF ~HasTag(line) THEN "text"
  ELSE LET tag == TagOf(line)
           payload == PayloadOf(line)
           valid == json_loads(payload).ok
           object == json_loads(payload).kind = "dict"
       IN  IF tag = <<"f">>
           THEN IF payload = <<>> \/ Head(payload) # "{" THEN "unknown"
                ELSE IF valid THEN "message_id" ELSE "none"
           ELSE IF tag = <<"0">>
           THEN IF IsQuoted(payload) /\ ~valid THEN "error" ELSE "content"
           ELSE IF tag \in {<<"e">>, <<"d">>}
           THEN IF ~valid THEN "none"
                ELSE IF dbg /\ ~object THEN "error" ELSE "finish"
           ELSE "unknown"

RECURSIVE AmendedTypes(_, _)
AmendedTypes(lines, dbg) ==
  IF lines = <<>> THEN <<>>
  ELSE LET ty == AmendedType(Head(lines), dbg)
       IN  (IF ty = "none" THEN <<>> ELSE <<ty>>) \o AmendedTypes(Tail(lines), dbg)

\* C7 amended: every non-blank line yields at most one item, in line order:
\* 'message_id' for tag 'f' when the payload starts with '{' and parses as JSON
\* ('unknown' when it does not start with '{'), 'content' for tag '0' ('error'
\* when the payload is quoted and is not valid JSON), 'finish' for tag 'e' or
\* 'd' when the payload parses as JSON ('error' when debug is on and it is not
\* an object), 'unknown' for any other tag, 'text' without ':'; a line tagged
\* 'f', 'e' or 'd' whose payload fails to parse yields nothing.
C7_AtMostOneItemPerLine ==
  (decoder = "_process_chat_stream" /\ phase = "returned" /\ worstCut # "byte") =>
    ItemTypes(st.items) = AmendedTypes(NonBlank(TerminatedLines(BodyText)), debug)

\* C7 witness: a finish line with an unparsable payload yielded nothing and the
\* content line around it yielded its item.
C7_Witness ==
  /\ decoder = "_process_chat_stream"
  /\ phase = "returned"
  /\ worstCut = "char"
  /\ body = <<"d", COLON, "a", NL, "0", COLON, "a", NL>>
  /\ ItemTypes(st.items) = <<"content">>

\* ------------------------------------------------------------ retry loops
SciraAPI_max_retries == 3
SciraChatAPI_max_retries == 3
UncovrClient_max_retries == 2
QwenAIClient_max_retries == 3
VeniceClient_max_retries == 3

SciraMethods == {"SciraAPI.search", "SciraAPI.search_with_history", "SciraChatAPI.chat"}

Clients ==
  SciraMethods \cup
    {"UncovrClient.send_message", "QwenAIClient.send_message", "VeniceClient.send_message"}

max_retries(c) ==
  CASE c \in {"SciraAPI.search", "SciraAPI.search_with_history"} -> SciraAPI_max_retries
    [] c = "SciraChatAPI.chat" -> SciraChatAPI_max_retries
    [] c = "UncovrClient.send_message" -> UncovrClient_max_retries
    [] c = "QwenAIClient.send_message" -> QwenAIClient_max_retries
    [] c = "VeniceClient.send_message" -> VeniceClient_max_retries
    [] OTHER -> 0

\* what session.post can do: answer with a status, or raise
PostOutcomes == {"200", "401", "403", "500", "RequestException"}

\* no stream is being decoded
IdleStream ==
  /\ decoder = "none"
  /\ debug = FALSE
  /\ body = <<>>
  /\ pos = 0
  /\ worstCut = "line"
  /\ st = DecoderInit
  /\ phase = "idle"

\* a loop that goes round once more than the condition of the code allows
while_condition_one_more(c, r) == r <= max_retries(c) + 1

\* while retries <= self.max_retries
while_condition(c, r) == r <= max_retries(c)

\* retries = 0 before the while loop
StartCall(c) ==
  /\ client' = c
  /\ pc' = "loop"
  /\ retries' = 0
  /\ posts' = 0
  /\ response' = "unbound"
  /\ outcomes' = <<>>
  /\ result' = "none"
  /\ UNCHANGED notRetry

InitRetry ==
  /\ IdleStream
  /\ IdleAuth
  /\ IdleApp
  /\ IdleConversation
  /\ IdleBlackbox
  /\ IdleZai
  /\ client \in Clients
  /\ pc = "loop"
  /\ retries = 0
  /\ posts = 0
  /\ response = "unbound"
  /\ outcomes = <<>>
  /\ result = "none"

\* the method is called again once the previous call has ended
NewCall ==
  /\ pc = "done"
  /\ \E c \in Clients : StartCall(c)

\* the call goes round the loop again, or leaves it with result res
Again(o, r, resp) ==
  /\ retries' = r
  /\ response' = resp
  /\ posts' = posts + 1
  /\ outcomes' = Append(outcomes, o)
  /\ pc' = "loop"
  /\ UNCHANGED <<client, result, notRetry>>

Leave(o, r, resp, res) ==
  /\ retries' = r
  /\ response' = resp
  /\ posts' = posts + 1
  /\ outcomes' = Append(outcomes, o)
  /\ pc' = "done"
  /\ result' = res
  /\ UNCHANGED <<client, notRetry>>

\* the code after the while loop of the Scira methods: response.status_code is
\* read whether or not response was ever assigned
scira_after_loop(resp) ==
  IF resp = "unbound" THEN "raise UnboundLocalError"
  ELSE IF resp # "200" THEN "None"
  ELSE "iterator"

\* one turn of the while loop of SciraAPI.search, SciraAPI.search_with_history
\* and SciraChatAPI.chat (the three loops are the same text), with the code
\* after the loop when the turn is the last
scira_attempt(o, refreshed) ==
  IF o = "RequestException"
  THEN IF while_condition(client, retries + 1)
       THEN Again(o, retries + 1, response)
       ELSE Leave(o, retries + 1, response, scira_after_loop(response))
  ELSE IF o = "200" THEN Leave(o, retries, o, scira_after_loop(o))
  ELSE IF o \in {"401", "403"}
       THEN IF refreshed
            THEN IF while_condition(client, retries + 1)
                 THEN Again(o, retries + 1, o)
                 ELSE Leave(o, retries + 1, o, scira_after_loop(o))
            ELSE Leave(o, retries, o, "None")
  ELSE Leave(o, retries, o, "None")

InLoop(c) == client = c /\ pc = "loop" /\ while_condition(c, retries)

SciraAPI_search ==
  /\ InLoop("SciraAPI.search")
  /\ \E o \in PostOutcomes, refreshed \in BOOLEAN : scira_attempt(o, refreshed)

SciraAPI_search_with_history ==
  /\ InLoop("SciraAPI.search_with_history")
  /\ \E o \in PostOutcomes, refreshed \in BOOLEAN : scira_attempt(o, refreshed)

SciraChatAPI_chat ==
  /\ InLoop("SciraChatAPI.chat")
  /\ \E o \in PostOutcomes, refreshed \in BOOLEAN : scira_attempt(o, refreshed)

\* one turn of the while loop of UncovrClient.send_message: session.post is not
\* inside a try, so its exception ends the call
uncovr_attempt(o, refreshed) ==
  IF o = "RequestException" THEN Leave(o, retries, response, "raise RequestException")
  ELSE IF o = "200" THEN Leave(o, retries, o, "dict")
  ELSE IF o \in {"401", "403"}
       THEN IF refreshed
            THEN IF while_condition(client, retries + 1)
                 THEN Again(o, retries + 1, o)
                 ELSE Leave(o, retries + 1, o, "None")
            ELSE Leave(o, retries, o, "None")
  ELSE Leave(o, retries, o, "None")

UncovrClient_send_message ==
  /\ InLoop("UncovrClient.send_message")
  /\ \E o \in PostOutcomes, refreshed \in BOOLEAN : uncovr_attempt(o, refreshed)

\* one turn of the while loop of QwenAIClient.send_message: every path but the
\* refreshed 401/403 returns a dict
qwen_attempt(o, refreshed) ==
  IF o = "RequestException" THEN Leave(o, retries, response, "failure dict")
  ELSE IF o = "200" THEN Leave(o, retries, o, "dict")
  ELSE IF o \in {"401", "403"}
       THEN IF refreshed
            THEN IF while_condition(client, retries + 1)
                 THEN Again(o, retries + 1, o)
                 ELSE Leave(o, retries + 1, o, "failure dict")
            ELSE Leave(o, retries, o, "failure dict")
  ELSE Leave(o, retries, o, "failure dict")

QwenAIClient_send_message ==
  /\ InLoop("QwenAIClient.send_message")
  /\ \E o \in PostOutcomes, refreshed \in BOOLEAN : qwen_attempt(o, refreshed)

\* one turn of the while loop of VeniceClient.send_message: every status but
\* 200 and every exception costs one retry
venice_attempt(o) ==
  IF o = "200" THEN Leave(o, retries, o, "text")
  ELSE LET resp == IF o = "RequestException" THEN response ELSE o
       IN  IF while_condition(client, retries + 1)
           THEN Again(o, retries + 1, resp)
           ELSE Leave(o, retries + 1, resp, "failure text")

VeniceClient_send_message ==
  /\ InLoop("VeniceClient.send_message")
  /\ \E o \in PostOutcomes : venice_attempt(o)

Attempt ==
  \/ SciraAPI_search
  \/ SciraAPI_search_with_history
  \/ SciraChatAPI_chat
  \/ UncovrClient_send_message
  \/ QwenAIClient_send_message
  \/ VeniceClient_send_message

NextRetry ==
  \/ SciraAPI_search
  \/ SciraAPI_search_with_history
  \/ SciraChatAPI_chat
  \/ UncovrClient_send_message
  \/ QwenAIClient_send_message
  \/ VeniceClient_send_message
  \/ NewCall

\* a call that has started keeps running: the loop body is sequential code
SpecRetry == InitRetry /\ [][NextRetry]_vars /\ WF_vars(Attempt)

\* ------------------------------------------------- claims on the retry loops
\* C4: whatever the server answers and whatever the cookie refreshes give, one
\* call of a retrying client method issues at most max_retries + 1 POST requests,
\* and a call that is in its loop ends (it returns or raises).
C4_RetryThenGiveUp ==
  /\ [](client \in Clients => posts <= max_retries(client) + 1)
  /\ [](pc = "loop" => <>(pc = "done"))

\* SciraAPI.search gave up after max_retries + 1 posts that were all refused
C4_Witness ==
  /\ client = "SciraAPI.search"
  /\ pc = "done"
  /\ posts = SciraAPI_max_retries + 1
  /\ result = "None"

\* C5: a call of SciraAPI.search, SciraAPI.search_with_history or
\* SciraChatAPI.chat in which no attempt obtained 200 returns None.
C5_FailedRequestReturnsNone ==
  (pc = "done" /\ client \in SciraMethods
     /\ \A k \in 1..Len(outcomes) : outcomes[k] # "200")
    => result = "None"

\* ------------------------------------------------------------ cookie cache
refresh_interval == 3600

\* How many times the clock may be advanced by half a refresh interval.
MaxTicks == 2

\* the keys of the file _save_cookies writes
TIMESTAMP == <<"t", "i", "m", "e", "s", "t", "a", "m", "p">>
COOKIES == <<"c", "o", "o", "k", "i", "e", "s">>

Digits == <<"0", "1", "2", "3", "4", "5", "6", "7", "8", "9">>

RECURSIVE FormatNat(_)
FormatNat(n) ==
  IF n < 10 THEN <<Digits[n + 1]>>
  ELSE FormatNat(n \div 10) \o <<Digits[(n % 10) + 1]>>

\* float.__repr__ of a whole number of seconds
FormatFloat(n) == FormatNat(n) \o <<".", "0">>

RECURSIVE EscapeString(_)
EscapeString(s) ==
  IF s = <<>> THEN <<>>
  ELSE (IF Head(s) \in {QUOTE, BACKSLASH} THEN <<BACKSLASH, Head(s)>>
        ELSE IF Head(s) = NL THEN <<BACKSLASH, "n">>
        ELSE <<Head(s)>>) \o EscapeString(Tail(s))

RECURSIVE Spaces(_)
Spaces(n) == IF n = 0 THEN <<>> ELSE <<SPACE>> \o Spaces(n - 1)

RECURSIVE json_dump_at(_, _)
RECURSIVE json_dump_members(_, _)
\* the members of an object, each on a line of its own, indented to level
json_dump_members(m, level) ==
  IF m = <<>> THEN <<>>
  ELSE <<NL>> \o Spaces(2 * level) \o <<QUOTE>> \o EscapeString(m[1][1]) \o <<QUOTE, COLON, SPACE>>
         \o json_dump_at(m[1][2], level)
         \o (IF Len(m) > 1 THEN <<",">> ELSE <<>>)
         \o json_dump_members(Tail(m), level)

json_dump_at(v, level) ==
  IF v.t = "num" THEN FormatFloat(v.n)
  ELSE IF v.t = "str" THEN <<QUOTE>> \o EscapeString(v.s) \o <<QUOTE>>
  ELSE IF v.m = <<>> THEN <<"{", "}">>
  ELSE <<"{">> \o json_dump_members(v.m, level + 1) \o <<NL>> \o Spaces(2 * level) \o <<"}">>

\* the text json.dump(v, f, indent=2) writes
json_dump(v) == json_dump_at(v, 0)

JLFail == [ok |-> FALSE, v |-> JNum(0), i |-> 0]

DigitValue(c) == CHOOSE d \in 0..9 : Digits[d + 1] = c

IsDigit(s, i) == i <= Len(s) /\ \E d \in 0..9 : Digits[d + 1] = s[i]

RECURSIVE JLDigits(_, _, _)
\* the digits from index i on: their value and the index after them
JLDigits(s, i, acc) ==
  IF IsDigit(s, i) THEN JLDigits(s, i + 1, 10 * acc + DigitValue(s[i]))
  ELSE [n |-> acc, i |-> i]

\* a number that starts with the digit at index i; the numbers of the model are
\* whole, written with or without a fraction of zeros
JLNumber(s, i) ==
  LET whole == JLDigits(s, i, 0)
  IN  IF whole.i <= Len(s) /\ s[whole.i] = "."
      THEN LET frac == JLDigits(s, whole.i + 1, 0)
           IN  IF frac.i = whole.i + 1 \/ frac.n # 0 THEN JLFail
               ELSE [ok |-> TRUE, v |-> JNum(whole.n), i |-> frac.i]
      ELSE [ok |-> TRUE, v |-> JNum(whole.n), i |-> whole.i]

HasKey(m, k) == \E j \in 1..Len(m) : m[j][1] = k

\* d[k] for a key d has
GetKey(m, k) == m[CHOOSE j \in 1..Len(m) : m[j][1] = k][2]

\* d[k] = v: a key that is there keeps its place
SetKey(m, k, v) ==
  IF HasKey(m, k) THEN [j \in 1..Len(m) |-> IF m[j][1] = k THEN <<k, v>> ELSE m[j]]
  ELSE Append(m, <<k, v>>)

RECURSIVE JLValue(_, _)
RECURSIVE JLMembers(_, _, _)
\* the members of an object from index i on, which is the start of a key
JLMembers(s, i, acc) ==
  IF i > Len(s) \/ s[i] # QUOTE THEN JLFail
  ELSE LET key == JsonScanString(s, i + 1, <<>>)
           k == JsonSkipWs(s, key.i)
       IN  IF ~key.ok \/ k > Len(s) \/ s[k] # COLON THEN JLFail
           ELSE LET val == JLValue(s, JsonSkipWs(s, k + 1))
                    e == JsonSkipWs(s, val.i)
                    m == SetKey(acc, key.str, val.v)
                IN  IF ~val.ok \/ e > Len(s) THEN JLFail
                    ELSE IF s[e] = "}" THEN [ok |-> TRUE, v |-> JObj(m), i |-> e + 1]
                    ELSE IF s[e] = "," THEN JLMembers(s, JsonSkipWs(s, e + 1), m)
                    ELSE JLFail

\* the value that starts exactly at index i
JLValue(s, i) ==
  IF i > Len(s) THEN JLFail
  ELSE IF s[i] = QUOTE
       THEN LET r == JsonScanString(s, i + 1, <<>>)
            IN  IF r.ok THEN [ok |-> TRUE, v |-> JStr(r.str), i |-> r.i] ELSE JLFail
  ELSE IF s[i] = "{"
       THEN LET j == JsonSkipWs(s, i + 1)
            IN  IF j <= Len(s) /\ s[j] = "}" THEN [ok |-> TRUE, v |-> JObj(<<>>), i |-> j + 1]
                ELSE JLMembers(s, j, <<>>)
  ELSE IF IsDigit(s, i) THEN JLNumber(s, i)
  ELSE JLFail

\* json.load(f): [ok |-> FALSE] is JSONDecodeError
json_load(text) ==
  LET r == JLValue(text, JsonSkipWs(text, 1))
  IN  IF r.ok /\ JsonSkipWs(text, r.i) = Len(text) + 1 THEN r ELSE JLFail

\* bool(x) of a value
Truthy(v) ==
  IF v.t = "num" THEN v.n # 0
  ELSE IF v.t = "str" THEN v.s # <<>>
  ELSE v.m # <<>>

\* SciraAuth._load_cookies as __init__ calls it, on cookies = {} and
\* last_refresh_time = 0, at time t
load_cookies(f, t) ==
  LET unloaded == [ret |-> FALSE, cookies |-> JObj(<<>>), last_refresh_time |-> JNum(0)]
  IN  IF ~f.exists THEN unloaded
      ELSE LET parsed == json_load(f.text)
           IN  IF ~parsed.ok THEN unloaded
               ELSE LET cookie_data == parsed.v
                        stamped == /\ cookie_data.t = "obj"
                                   /\ HasKey(cookie_data.m, TIMESTAMP)
                                   /\ HasKey(cookie_data.m, COOKIES)
                        loaded == IF stamped THEN GetKey(cookie_data.m, COOKIES) ELSE cookie_data
                    IN  [ret |-> loaded.t = "obj",   \* .items() raises on anything else
                         cookies |-> loaded,
                         last_refresh_time |->
                           IF stamped THEN GetKey(cookie_data.m, TIMESTAMP) ELSE JNum(t)]

\* the file after SciraAuth._save_cookies at time t; the write can fail
save_cookies(f, ck, t, written) ==
  IF written
  THEN [exists |-> TRUE,
        text |-> json_dump(JObj(<<<<TIMESTAMP, JNum(t)>>, <<COOKIES, ck>>>>))]
  ELSE f

\* a cache that is used when it is stale and refreshed when it is fresh
cache_is_fresh_inverted(force, ck, lrt, t) ==
  ~force /\ Truthy(ck) /\ t - lrt.n >= refresh_interval

\* not force and self.cookies and current_time - self.last_refresh_time <
\* self.refresh_interval, where the subtraction is defined
cache_is_fresh(force, ck, lrt, t) ==
  ~force /\ Truthy(ck) /\ t - lrt.n < refresh_interval

\* the subtraction raises TypeError when last_refresh_time is not a number
subtraction_raises(force, ck, lrt) == ~force /\ Truthy(ck) /\ lrt.t # "num"

\* what the site can answer to the GET of refresh_cookies: "200" with the
\* cookies of jar, another status, or an exception
FetchOutcomes == {"200", "503", "RequestException"}

A_NAME == <<"a">>
B_VALUE == <<"b">>

\* dict(self.session.cookies) after a fetch that got 200
CookieJars ==
  { <<>>,
    <<<<A_NAME, JStr(B_VALUE)>>>>,
    <<<<TIMESTAMP, JStr(<<QUOTE>>)>>, <<COOKIES, JStr(B_VALUE)>>>> }

HalfInterval == refresh_interval \div 2

\* what a fetch can bring: only an answer of 200 brings cookies and is saved
JarsOf(outcome) == IF outcome = "200" THEN CookieJars ELSE {<<>>}
WritesOf(outcome) == IF outcome = "200" THEN BOOLEAN ELSE {FALSE}

\* SciraAuth.refresh_cookies(force) at time t: what it returns, the fields and
\* the file it leaves, and how many GET requests it made
refresh_cookies(force, ck, lrt, f, t, outcome, jar, written) ==
  LET kept == [ret |-> "True", cookies |-> ck, last_refresh_time |-> lrt, file |-> f,
               gets |-> 0, saved |-> FALSE]
  IN  IF subtraction_raises(force, ck, lrt) THEN [kept EXCEPT !.ret = "raise TypeError"]
      ELSE IF cache_is_fresh(force, ck, lrt, t) THEN kept
      ELSE IF outcome = "200"
           THEN [ret |-> "True", cookies |-> JObj(jar), last_refresh_time |-> JNum(t),
                 file |-> save_cookies(f, JObj(jar), t, written),
                 gets |-> 1, saved |-> written]
      ELSE [kept EXCEPT !.ret = "False", !.gets = 1]

\* the clock when the model starts: a real clock is far past refresh_interval
StartTime == refresh_interval

\* the cookie files a SciraAuth can find at its path
InitialFiles ==
  { [holds |-> [kind |-> "missing", mapping |-> JObj(<<>>), timestamp |-> 0],
     file |-> [exists |-> FALSE, text |-> <<>>]],
    [holds |-> [kind |-> "unparsable", mapping |-> JObj(<<>>), timestamp |-> 0],
     file |-> [exists |-> TRUE, text |-> <<>>]],
    [holds |-> [kind |-> "unparsable", mapping |-> JObj(<<>>), timestamp |-> 0],
     file |-> [exists |-> TRUE, text |-> <<"{", NL>>]],
    [holds |-> [kind |-> "other", mapping |-> JNum(5), timestamp |-> 0],
     file |-> [exists |-> TRUE, text |-> <<"5">>]] }
  \cup
  { [holds |-> [kind |-> "legacy", mapping |-> JObj(jar), timestamp |-> 0],
     file |-> [exists |-> TRUE, text |-> json_dump(JObj(jar))]] : jar \in CookieJars }
  \cup
  { [holds |-> [kind |-> "saved", mapping |-> JObj(jar), timestamp |-> ts],
     file |-> save_cookies([exists |-> FALSE, text |-> <<>>], JObj(jar), ts, TRUE)] :
      jar \in CookieJars \ {<<>>}, ts \in {0, StartTime - 1} }

NoFetch == [at |-> -1, cookies |-> JObj(<<>>)]

\* SciraAuth.__init__ at time t on the file f
Construct(f, t) ==
  LET l == load_cookies(f, t)
  IN  /\ now' = t
      /\ file' = f
      /\ cookies' = l.cookies
      /\ last_refresh_time' = l.last_refresh_time
      /\ authCall' = [op |-> "__init__", force |-> FALSE, gets |-> 0,
                      ret |-> IF l.ret THEN "True" ELSE "False", elapsed |-> -1, had |-> 0]
      /\ fetched' = NoFetch

InitAuth ==
  /\ IdleStream
  /\ IdleRetry
  /\ IdleApp
  /\ IdleConversation
  /\ IdleBlackbox
  /\ IdleZai
  /\ \E i \in InitialFiles :
       LET l == load_cookies(i.file, StartTime)
       IN  /\ now = StartTime
           /\ file = i.file
           /\ fileHolds = i.holds
           /\ cookies = l.cookies
           /\ last_refresh_time = l.last_refresh_time
           /\ authCall = [op |-> "__init__", force |-> FALSE, gets |-> 0,
                          ret |-> IF l.ret THEN "True" ELSE "False", elapsed |-> -1,
                          had |-> 0]
           /\ fetched = NoFetch

\* the object takes the fields r leaves; op returned ret
AfterRefresh(op, force, r, ret) ==
  /\ file' = r.file
  /\ cookies' = r.cookies
  /\ last_refresh_time' = r.last_refresh_time
  /\ authCall' = [op |-> op, force |-> force, gets |-> r.gets, ret |-> ret,
                  elapsed |-> IF fetched.at < 0 THEN -1 ELSE now - fetched.at,
                  had |-> Len(fetched.cookies.m)]
  /\ fetched' = IF r.gets = 1 /\ r.ret = "True" THEN [at |-> now, cookies |-> r.cookies]
                ELSE fetched
  /\ fileHolds' = IF r.saved
                  THEN [kind |-> "saved", mapping |-> r.cookies, timestamp |-> now]
                  ELSE fileHolds
  /\ UNCHANGED <<now, notAuth>>

SciraAuth_refresh_cookies ==
  \E force \in BOOLEAN, outcome \in FetchOutcomes :
   \E jar \in JarsOf(outcome), written \in WritesOf(outcome) :
    LET r == refresh_cookies(force, cookies, last_refresh_time, file, now,
                             outcome, jar, written)
    IN  AfterRefresh("refresh_cookies", force, r, r.ret)

\* self.refresh_cookies(); return self.cookies
SciraAuth_get_auth_cookies ==
  \E outcome \in FetchOutcomes :
   \E jar \in JarsOf(outcome), written \in WritesOf(outcome) :
    LET r == refresh_cookies(FALSE, cookies, last_refresh_time, file, now,
                             outcome, jar, written)
    IN  AfterRefresh("get_auth_cookies", FALSE, r,
                     IF r.ret = "raise TypeError" THEN r.ret ELSE "cookies")

\* self.refresh_cookies(), then a new session that is given self.cookies.items()
SciraAuth_prepare_session ==
  \E outcome \in FetchOutcomes :
   \E jar \in JarsOf(outcome), written \in WritesOf(outcome) :
    LET r == refresh_cookies(FALSE, cookies, last_refresh_time, file, now,
                             outcome, jar, written)
    IN  AfterRefresh("prepare_session", FALSE, r,
                     IF r.ret = "raise TypeError" THEN r.ret
                     ELSE IF r.cookies.t # "obj" THEN "raise AttributeError"
                     ELSE "session")

\* a new SciraAuth is built on the same path
SciraAuth_init ==
  /\ Construct(file, now)
  /\ UNCHANGED fileHolds
  /\ UNCHANGED notAuth

\* half a refresh interval passes
Tick ==
  /\ now + HalfInterval <= StartTime + MaxTicks * HalfInterval
  /\ now' = now + HalfInterval
  /\ UNCHANGED <<file, cookies, last_refresh_time, authCall, fetched, fileHolds>>
  /\ UNCHANGED notAuth

NextAuth ==
  \/ SciraAuth_refresh_cookies
  \/ SciraAuth_get_auth_cookies
  \/ SciraAuth_prepare_session
  \/ SciraAuth_init
  \/ Tick

SpecAuth == InitAuth /\ [][NextAuth]_vars

\* ------------------------------------------------ claims on the cookie cache
AuthOps == {"refresh_cookies", "get_auth_cookies", "prepare_session"}

\* the last call made no request and answered with the cookies of the last fetch
CachedAnswer ==
  /\ authCall.gets = 0
  /\ authCall.ret \in {"True", "cookies", "session"}
  /\ cookies = fetched.cookies

\* C8 as stated: a call without force that comes less than refresh_interval
\* after a fetch that got 200 makes no request and answers from the cache; a
\* call with force makes the request.
C8_RefreshOnlyWhenNeeded ==
  /\ (authCall.op \in AuthOps /\ ~authCall.force
        /\ authCall.elapsed >= 0 /\ authCall.elapsed < refresh_interval)
       => CachedAnswer
  /\ (authCall.op = "refresh_cookies" /\ authCall.force) => authCall.gets = 1

\* C8: a call without force that comes less than refresh_interval after a fetch
\* that got 200 and at least one cookie makes no request and answers from the
\* cache; a call with force makes the request.
C8_RefreshOnlyWhenNeededWithCookies ==
  /\ (authCall.op \in AuthOps /\ ~authCall.force /\ authCall.had > 0
        /\ authCall.elapsed >= 0 /\ authCall.elapsed < refresh_interval)
       => CachedAnswer
  /\ (authCall.op = "refresh_cookies" /\ authCall.force) => authCall.gets = 1

\* get_auth_cookies answered from the cache half an interval after the fetch
C8_Witness ==
  /\ authCall.op = "get_auth_cookies"
  /\ authCall.had > 0
  /\ authCall.elapsed = HalfInterval
  /\ authCall.gets = 0
  /\ authCall.ret = "cookies"

\* C9: a SciraAuth built on a file _save_cookies wrote has the mapping and the
\* timestamp that were saved; built on a legacy file that holds a bare mapping
\* it has that mapping; built on a missing or unparsable file it has no cookies
\* and _load_cookies returned False.
C9_CookieCacheRoundTrips ==
  authCall.op = "__init__" =>
    /\ fileHolds.kind = "saved" =>
         /\ cookies = fileHolds.mapping
         /\ last_refresh_time = JNum(fileHolds.timestamp)
    /\ fileHolds.kind = "legacy" => cookies = fileHolds.mapping
    /\ fileHolds.kind \in {"missing", "unparsable"} =>
         /\ cookies = JObj(<<>>)
         /\ authCall.ret = "False"

\* -------------------------------------------------------- Flask application
\* How many instances the cache of one worker may hold.
MaxCached == 1
\* A chat is sent to an instance only while it holds at most this many messages.
MaxHistory == 1

\* the ids of AVAILABLE_MODELS when every client module was imported
AVAILABLE_MODELS ==
  <<"scira-default", "scira-grok", "scira-claude", "scira-vision",
    "qwen", "chatgot", "uncovr", "blackbox", "mistral-small", "llama-akash">>

\* the model ids requests name: the listed ones, two that are not listed, and ""
RequestModelIds ==
  {"scira-default", "scira-grok", "scira-claude", "scira-vision",
   "qwen", "chatgot", "uncovr", "blackbox", "mistral-small", "llama-akash",
   "scira-foo", "gpt-5", ""}

\* the ids among these for which model_id.startswith("scira-")
SciraPrefixed == {"scira-default", "scira-grok", "scira-claude", "scira-vision", "scira-foo"}

\* data.get(key): the value of a key, or None when the key is absent
Arg(v) == [given |-> TRUE, value |-> v]
Absent == [given |-> FALSE, value |-> ""]

\* not x, for what data.get gave
Falsy(a) == ~a.given \/ a.value = ""

\* request.json: a JSON object with or without each key, or JSON that is not
\* an object
ObjectBodies ==
  { [shape |-> "object", model_id |-> i, message |-> m] :
      i \in {Absent} \cup {Arg(v) : v \in RequestModelIds},
      m \in {Absent, Arg(""), Arg("hi")} }

NonObjectBodies ==
  { [shape |-> s, model_id |-> Absent, message |-> Absent] : s \in {"null", "array"} }

\* A message of a conversation: its role, the web client whose request it
\* belongs to, and whether /api/clear has answered success for its model since
\* it was sent.
Message(role, sender) == [role |-> role, sender |-> sender, old |-> FALSE]

\* a client object: its class, the model it was built for, and its
\* conversation_history (chat_history in QwenAIClient)
Instance(cls, model) == [cls |-> cls, model |-> model, history |-> <<>>]
NoneInstance == Instance("None", "")

\* model_map.get(model_id, "default")
model_type(model_id) ==
  CASE model_id = "scira-grok" -> "grok"
    [] model_id = "scira-claude" -> "claude"
    [] model_id = "scira-vision" -> "vision"
    [] OTHER -> "default"

\* get_model_instance(model_id) on the cache mi of a worker: the instance
\* returned, the cache afterwards and the ids it added to the cache
get_model_instance(mi, model_id) ==
  LET cache(instance) == [instance |-> instance,
                          model_instances |-> (model_id :> instance) @@ mi,
                          added |-> {model_id}]
  IN  IF model_id \in DOMAIN mi
      THEN [instance |-> mi[model_id], model_instances |-> mi, added |-> {}]
      ELSE IF model_id \in SciraPrefixed THEN cache(Instance("SciraChat", model_type(model_id)))
      ELSE IF model_id = "qwen" THEN cache(Instance("QwenAIClient", ""))
      ELSE IF model_id = "chatgot" THEN cache(Instance("ChatGotClient", ""))
      ELSE IF model_id = "uncovr" THEN cache(Instance("UncovrClient", ""))
      ELSE IF model_id = "blackbox" THEN cache(NoneInstance)
      ELSE IF model_id = "mistral-small" THEN cache(Instance("MistralSmall", ""))
      ELSE IF model_id = "llama-akash" THEN cache(Instance("LlamaAkash", ""))
      ELSE [instance |-> NoneInstance, model_instances |-> mi, added |-> {}]

Listed(model_id) == \E k \in 1..Len(AVAILABLE_MODELS) : AVAILABLE_MODELS[k] = model_id

\* a chat_operation that always answers send_message
chat_operation_send_message(model_id) == "send_message"

\* the operation the chat handler invokes on the instance of a model
chat_operation(model_id) ==
  IF model_id \in SciraPrefixed THEN "chat" ELSE "send_message"

\* the branches of the chat handler that fetch an instance
InstanceBranches ==
  SciraPrefixed \cup {"qwen", "chatgot", "uncovr", "mistral-small", "llama-akash"}

\* what the upstream service does with a request: it answers with text, it
\* fails (a status other than 200), or the HTTP call raises
Upstreams == {"answers", "fails", "raises"}

\* instance.chat(message) or instance.send_message(message) for a message of
\* the web client s: the history the instance is left with, the messages of
\* the payload it posted, and what it returned
client_send(instance, s, upstream) ==
  LET h == instance.history
      user == Message("user", s)
      reply == Message("assistant", s)
      answered == upstream = "answers"
  IN  CASE instance.cls = "SciraChat" ->
             \* the user message is appended before the request and stays
             [history |-> IF answered THEN h \o <<user, reply>> ELSE Append(h, user),
              payload |-> Append(h, user),
              ret |-> IF answered THEN "text" ELSE "None"]
        [] instance.cls = "QwenAIClient" ->
             \* chat_history goes into the form, and grows only on an answer
             [history |-> IF answered THEN h \o <<user, reply>> ELSE h,
              payload |-> Append(h, user),
              ret |-> "dict"]
        [] instance.cls \in {"MistralSmall", "LlamaAkash"} ->
             \* VeniceClient posts the current message alone
             [history |-> IF answered THEN h \o <<user, reply>> ELSE Append(h, user),
              payload |-> <<user>>,
              ret |-> "text"]
        [] instance.cls = "UncovrClient" ->
             [history |-> h, payload |-> <<user>>,
              ret |-> IF answered THEN "dict"
                      ELSE IF upstream = "fails" THEN "None" ELSE "raise"]
        [] OTHER ->
             \* ChatGotClient
             [history |-> h, payload |-> <<user>>,
              ret |-> IF upstream = "raises" THEN "raise" ELSE "tuple"]

\* the status the chat handler answers after the client operation returned ret:
\* an exception, and result.get on the None of UncovrClient, end in the except
handler_status(cls, ret) ==
  IF ret = "raise" \/ (cls = "UncovrClient" /\ ret = "None") THEN 500 ELSE 200

Answer(status, text) == [status |-> status, body |-> text]

\* the cache of worker w becomes cache
CacheOf(w, cache) == [model_instances EXCEPT ![w] = cache]

\* the instance, with the history h
WithHistory(instance, h) == [instance EXCEPT !.history = h]

\* the request fits the bounds of the model
Room(g) ==
  /\ Cardinality(DOMAIN g.model_instances) <= MaxCached
  /\ Len(g.instance.history) <= MaxHistory

Served(route, w, s, b, a, mi, added, ops) ==
  /\ request' = [route |-> route, worker |-> w, sender |-> s, shape |-> b.shape,
                 model_id |-> b.model_id, message |-> b.message]
  /\ answer' = a
  /\ model_instances' = mi
  /\ created' = added
  /\ called' = ops
  /\ UNCHANGED notApp

\* POST /api/chat with the JSON body b, sent by the web client s and served by
\* the worker w
chat_by(bodies, workers, senders) ==
  \E b \in bodies, w \in workers, s \in senders, upstream \in Upstreams :
    LET model_id == b.model_id.value
        g == get_model_instance(model_instances[w], model_id)
        r == client_send(g.instance, s, upstream)
    IN  IF b.shape # "object"
        \* data.get raises AttributeError outside the try
        THEN Served("/api/chat", w, s, b, Answer(500, "Internal Server Error"),
                    model_instances, {}, {})
        ELSE IF Falsy(b.model_id) \/ Falsy(b.message)
        THEN Served("/api/chat", w, s, b, Answer(400, "Missing model_id or message"),
                    model_instances, {}, {})
        ELSE IF ~Listed(model_id)
        THEN Served("/api/chat", w, s, b, Answer(404, "Model not found"),
                    model_instances, {}, {})
        ELSE IF model_id \in InstanceBranches
        THEN /\ Room(g)
             /\ Served("/api/chat", w, s, b,
                       IF handler_status(g.instance.cls, r.ret) = 200
                       THEN Answer(200, "response") ELSE Answer(500, "error"),
                       CacheOf(w, (model_id :> WithHistory(g.instance, r.history))
                                    @@ g.model_instances),
                       g.added,
                       {[target |-> model_id, op |-> chat_operation(model_id),
                         payload |-> r.payload]})
        ELSE IF model_id = "blackbox"
        \* its exceptions are caught and become the response text
        THEN Served("/api/chat", w, s, b, Answer(200, "response"), model_instances, {},
                    {[target |-> "send_request_api", op |-> "call",
                      payload |-> <<Message("user", s)>>]})
        ELSE Served("/api/chat", w, s, b, Answer(501, "Model not implemented"),
                    model_instances, {}, {})

\* a set of classes in which ChatGotClient also counts as clearing its history
HasClearHistory_with_chatgot ==
  {"SciraChat", "QwenAIClient", "MistralSmall", "LlamaAkash", "ChatGotClient"}

\* the classes that define clear_history
HasClearHistory == {"SciraChat", "QwenAIClient", "MistralSmall", "LlamaAkash"}

\* the messages of the instance of model_id in the cache, if any, are marked old
MarkOld(cache, model_id) ==
  [k \in DOMAIN cache |->
     IF k = model_id
     THEN WithHistory(cache[k],
                      [j \in 1..Len(cache[k].history) |->
                         [cache[k].history[j] EXCEPT !.old = TRUE]])
     ELSE cache[k]]

\* POST /api/clear with the JSON body b
clear_by(bodies, workers, senders) ==
  \E b \in bodies, w \in workers, s \in senders :
    LET model_id == b.model_id.value
        g == get_model_instance(model_instances[w], model_id)
    IN  IF b.shape # "object"
        THEN Served("/api/clear", w, s, b, Answer(500, "Internal Server Error"),
                    model_instances, {}, {})
        ELSE IF Falsy(b.model_id)
        THEN Served("/api/clear", w, s, b, Answer(400, "Missing model_id"),
                    model_instances, {}, {})
        ELSE IF g.instance.cls \in HasClearHistory
        THEN /\ Cardinality(DOMAIN g.model_instances) <= MaxCached
             /\ Served("/api/clear", w, s, b, Answer(200, "success"),
                       [v \in Workers |->
                          IF v = w
                          THEN (model_id :> WithHistory(g.instance, <<>>)) @@ g.model_instances
                          ELSE MarkOld(model_instances[v], model_id)],
                       g.added,
                       {[target |-> model_id, op |-> "clear_history", payload |-> <<>>]})
        ELSE /\ Cardinality(DOMAIN g.model_instances) <= MaxCached
             /\ Served("/api/clear", w, s, b,
                       Answer(400, "Cannot clear history for this model"),
                       CacheOf(w, g.model_instances), g.added, {})

\* one worker and one web client
chat == chat_by(ObjectBodies \cup NonObjectBodies, {1}, {"A"})

clear_history ==
  clear_by({x \in ObjectBodies : ~x.message.given} \cup NonObjectBodies, {1}, {"A"})

InitApp ==
  /\ IdleStream
  /\ IdleRetry
  /\ IdleAuth
  /\ IdleApp
  /\ IdleConversation
  /\ IdleBlackbox
  /\ IdleZai

NextApp ==
  \/ chat
  \/ clear_history

SpecApp == InitApp /\ [][NextApp]_vars

\* ------------------------------------------------------ claims on the routing
\* the request touched no client: none was added to the cache, none was called
Untouched == created = {} /\ called = {}

\* C10: POST /api/chat answers 400 when model_id or message is missing or empty,
\* otherwise 404 when model_id is not listed, and in both cases no instance is
\* created, cached or called.
C10_RejectsBeforeTouchingClients ==
  request.route = "/api/chat" =>
    /\ (Falsy(request.model_id) \/ Falsy(request.message))
         => (answer.status = 400 /\ Untouched)
    /\ (~Falsy(request.model_id) /\ ~Falsy(request.message)
          /\ ~Listed(request.model_id.value))
         => (answer.status = 404 /\ Untouched)

\* the request served last is a POST to the route naming the model id
RequestFor(route, id) ==
  /\ request.route = route
  /\ request.shape = "object"
  /\ request.model_id = Arg(id)

\* the operation through which a client of the class takes a message
SendOperation(cls) == IF cls = "SciraChat" THEN "chat" ELSE "send_message"

\* the instance the worker of the last request caches for the id
CachedFor(id) == model_instances[request.worker][id]

IsCachedFor(id) ==
  /\ request.worker \in Workers
  /\ id \in DOMAIN model_instances[request.worker]

\* C11: for every listed model id, POST /api/chat with a non-empty message
\* calls the chat or send_message operation of the client get_model_instance
\* maps to that id (send_request_api for blackbox) and no other operation, and
\* never answers 501.
C11_RoutesToSelectedClient ==
  \A k \in 1..Len(AVAILABLE_MODELS) :
    LET id == AVAILABLE_MODELS[k]
        mapped == get_model_instance(<<>>, id).instance
    IN  (RequestFor("/api/chat", id) /\ ~Falsy(request.message)) =>
          /\ answer.status # 501
          /\ \E c \in called :
               /\ called = {c}
               /\ IF id = "blackbox"
                  THEN c.target = "send_request_api"
                  ELSE /\ c.target = id
                       /\ c.op = SendOperation(mapped.cls)
                       /\ IsCachedFor(id)
                       /\ CachedFor(id).cls = mapped.cls
                       /\ CachedFor(id).model = mapped.model

\* a chat for scira-grok reached the chat operation of its SciraChat
C11_Witness ==
  /\ RequestFor("/api/chat", "scira-grok")
  /\ answer.status = 200
  /\ called = {[target |-> "scira-grok", op |-> "chat",
                payload |-> <<Message("user", "A")>>]}

\* the listed ids whose client class defines clear_history
ClearableIds ==
  {"scira-default", "scira-grok", "scira-claude", "scira-vision",
   "qwen", "mistral-small", "llama-akash"}

\* C12 as the specification states it: POST /api/clear answers success for
\* every listed model id, and the client of that id then holds an empty history.
C12_ClearSucceedsForEveryModel ==
  \A k \in 1..Len(AVAILABLE_MODELS) :
    LET id == AVAILABLE_MODELS[k]
    IN  RequestFor("/api/clear", id) =>
          /\ answer = Answer(200, "success")
          /\ IsCachedFor(id)
          /\ CachedFor(id).history = <<>>

\* C12, amended: POST /api/clear answers success for the listed ids whose
\* client defines clear_history (the scira ids, qwen, mistral-small and
\* llama-akash), and that client then holds an empty history; for chatgot,
\* uncovr and blackbox it answers 400 and clears nothing.
C12_ClearSucceedsForClearableModels ==
  \A k \in 1..Len(AVAILABLE_MODELS) :
    LET id == AVAILABLE_MODELS[k]
    IN  RequestFor("/api/clear", id) =>
          IF id \in ClearableIds
          THEN /\ answer = Answer(200, "success")
               /\ IsCachedFor(id)
               /\ CachedFor(id).history = <<>>
               /\ called = {[target |-> id, op |-> "clear_history", payload |-> <<>>]}
          ELSE /\ answer = Answer(400, "Cannot clear history for this model")
               /\ called = {}

\* the history of an instance qwen that a chat had cached earlier was cleared
C12_Witness ==
  /\ RequestFor("/api/clear", "qwen")
  /\ created = {}
  /\ answer = Answer(200, "success")
  /\ CachedFor("qwen").history = <<>>

\* ------------------------------------------------------------ conversations
\* How many messages the user sends in one conversation.
MaxTurns == 3

\* the letters str.lower maps
Uppers ==
  <<"A", "B", "C", "D", "E", "F", "G", "H", "I", "J", "K", "L", "M",
    "N", "O", "P", "Q", "R", "S", "T", "U", "V", "W", "X", "Y", "Z">>
Lowers ==
  <<"a", "b", "c", "d", "e", "f", "g", "h", "i", "j", "k", "l", "m",
    "n", "o", "p", "q", "r", "s", "t", "u", "v", "w", "x", "y", "z">>

\* str.lower
lower(s) ==
  [i \in DOMAIN s |->
     IF \E k \in DOMAIN Uppers : Uppers[k] = s[i]
     THEN Lowers[CHOOSE k \in DOMAIN Uppers : Uppers[k] = s[i]]
     ELSE s[i]]

\* SciraChatAPI.AVAILABLE_MODELS (SciraChat.MODELS holds the same), as text
ShortNames == {<<"d", "e", "f", "a", "u", "l", "t">>, <<"g", "r", "o", "k">>, <<"c", "l", "a", "u", "d", "e">>, <<"v", "i", "s", "i", "o", "n">>}

FullModelId(short) ==
  CASE short = <<"d", "e", "f", "a", "u", "l", "t">> -> <<"s", "c", "i", "r", "a", "-", "d", "e", "f", "a", "u", "l", "t">>
    [] short = <<"g", "r", "o", "k">> -> <<"s", "c", "i", "r", "a", "-", "g", "r", "o", "k", "-", "3", "-", "m", "i", "n", "i">>
    [] short = <<"c", "l", "a", "u", "d", "e">> -> <<"s", "c", "i", "r", "a", "-", "c", "l", "a", "u", "d", "e">>
    [] OTHER -> <<"s", "c", "i", "r", "a", "-", "v", "i", "s", "i", "o", "n">>

FullModelIds == {FullModelId(short) : short \in ShortNames}

\* set_model(name) on an object whose self.model is current: the model it
\* leaves and what it raised
set_model(name, current) ==
  IF name \in FullModelIds THEN [model |-> name, raised |-> "none"]
  ELSE IF lower(name) \in ShortNames
  THEN [model |-> FullModelId(lower(name)), raised |-> "none"]
  ELSE [model |-> FullModelId(<<"d", "e", "f", "a", "u", "l", "t">>), raised |-> "none"]

\* the names passed to the constructor and to set_model
ModelArguments ==
  {<<"d", "e", "f", "a", "u", "l", "t">>, <<"g", "r", "o", "k">>, <<"C", "l", "a", "u", "d", "e">>, <<"V", "I", "S", "I", "O", "N">>, <<"s", "c", "i", "r", "a", "-", "c", "l", "a", "u", "d", "e">>, <<"s", "c", "i", "r", "a", "-", "g", "r", "o", "k", "-", "3", "-", "m", "i", "n", "i">>,
   <<"S", "c", "i", "r", "a", "-", "V", "i", "s", "i", "o", "n">>, <<"g", "p", "t", "-", "4">>, <<>>}

\* a message of a conversation: its role, and which of the user's messages it
\* is or answers
Turn(role, n) == [role |-> role, content |-> n]

NoIterator == [open |-> FALSE, content |-> FALSE, abandoned |-> FALSE]

\* one call and what it found: the history, the model and the history file
\* before it, and whether it called save_conversation_history
Exchange(op, arg, payload, ret) ==
  [op |-> op, arg |-> arg, payload |-> payload, ret |-> ret,
   before |-> conversation_history, before_model |-> chat_model,
   file_before |-> history_file, save |-> "not called"]

\* save_conversation_history(file_path, history): the file holds the history
\* when the write succeeded, and what it held when open() raised
save_conversation_history(held, history, saved) ==
  [file |-> IF saved THEN history ELSE held,
   save |-> IF saved THEN "written" ELSE "failed"]

Programs == {"SciraChatAPI", "simple_scira_chat", "scira_chat_simple", "chat_mode"}

\* the history file chat_mode finds: none, or an earlier conversation
InitialHistories == {<<>>, <<Turn("user", 0), Turn("assistant", 0)>>}

InitConversation ==
  /\ IdleStream
  /\ IdleRetry
  /\ IdleAuth
  /\ IdleApp
  /\ IdleBlackbox
  /\ IdleZai
  /\ program \in Programs
  /\ \E name \in ModelArguments :
       chat_model = IF program = "chat_mode" THEN <<"s", "c", "i", "r", "a", "-", "d", "e", "f", "a", "u", "l", "t">>
                    ELSE set_model(name, <<>>).model
  /\ history_file \in IF program = "chat_mode" THEN InitialHistories ELSE {<<>>}
  /\ conversation_history = history_file
  /\ turn = 0
  /\ iterator = NoIterator
  /\ exchange = [op |-> "none", arg |-> <<>>, payload |-> <<>>, ret |-> "none",
                 before |-> <<>>, before_model |-> <<>>,
                 file_before |-> <<>>, save |-> "not called"]

\* SciraChatAPI.set_model(name)
SciraChatAPI_set_model ==
  /\ program = "SciraChatAPI"
  /\ \E name \in ModelArguments :
       LET r == set_model(name, chat_model)
       IN  /\ chat_model' = r.model
           /\ exchange' = Exchange("set_model", name, <<>>,
                                   IF r.raised = "none" THEN "None" ELSE r.raised)
  /\ UNCHANGED <<program, conversation_history, history_file, turn, iterator, notConversation>>

\* what the retry loop of SciraChatAPI.chat ends with: a 200 response, None, or
\* the UnboundLocalError of a call whose every attempt raised
LoopEnds == {"200", "None", "UnboundLocalError"}

\* the history argument of chat: none, or a list of the caller
HistoryArguments == {<<>>, <<Turn("assistant", 0)>>}

\* SciraChatAPI.chat(message, history): up to the return of the iterator. An
\* iterator the caller left open is abandoned.
SciraChatAPI_chat_returns ==
  /\ program = "SciraChatAPI"
  /\ turn < MaxTurns
  /\ \E end \in LoopEnds, history \in HistoryArguments, content \in BOOLEAN :
       LET user_message == Turn("user", turn + 1)
           messages == (IF history # <<>> THEN history ELSE conversation_history)
                         \o <<user_message>>
       IN  /\ turn' = turn + 1
           /\ exchange' = Exchange("chat", history, messages,
                                   IF end = "200" THEN "iterator" ELSE end)
           /\ conversation_history' =
                IF end = "200" THEN Append(conversation_history, user_message)
                ELSE conversation_history
           /\ iterator' =
                IF end = "200"
                THEN [open |-> TRUE, content |-> content,
                      abandoned |-> iterator.abandoned \/ iterator.open]
                ELSE [iterator EXCEPT !.abandoned = iterator.abandoned \/ iterator.open,
                                      !.open = FALSE]
  /\ UNCHANGED <<program, chat_model, history_file, notConversation>>

\* the caller consumes the iterator of _process_chat_stream to its end
SciraChatAPI_process_chat_stream ==
  /\ program = "SciraChatAPI"
  /\ iterator.open
  /\ iterator' = [iterator EXCEPT !.open = FALSE]
  /\ conversation_history' =
       IF iterator.content
       THEN Append(conversation_history, Turn("assistant", turn))
       ELSE conversation_history
  /\ UNCHANGED <<program, chat_model, history_file, turn, exchange, notConversation>>

\* SciraChatAPI.clear_history(); called while an iterator is open, it leaves
\* that iterator to append to the new list
SciraChatAPI_clear_history ==
  /\ program = "SciraChatAPI"
  /\ exchange' = Exchange("clear_history", <<>>, <<>>, "None")
  /\ conversation_history' = <<>>
  /\ iterator' = IF iterator.open THEN [iterator EXCEPT !.abandoned = TRUE] ELSE NoIterator
  /\ UNCHANGED <<program, chat_model, history_file, turn, notConversation>>

\* what a POST of SciraChat.chat obtains
PostStatuses == {"200", "401", "500", "exception"}

\* what _process_response returns for a 200 response: the text, an empty
\* string, or None when reading the stream raised
ProcessedResponses == {"text", "empty string", "None"}

\* SciraChat.chat(message) of simple_scira_chat and of scira_chat_simple; the
\* latter retries after 401 or 403 whatever _refresh_cookies returned
SciraChat_chat ==
  /\ program \in {"simple_scira_chat", "scira_chat_simple"}
  /\ turn < MaxTurns
  /\ \E first \in PostStatuses, refreshed \in BOOLEAN,
        second \in PostStatuses, full_response \in ProcessedResponses :
       LET user_message == Turn("user", turn + 1)
           sent == Append(conversation_history, user_message)
           retried == first = "401" /\ (program = "scira_chat_simple" \/ refreshed)
           status == IF first = "200" THEN "200" ELSE IF retried THEN second ELSE first
           ret == IF status = "200" THEN full_response ELSE "None"
       IN  /\ turn' = turn + 1
           /\ exchange' = Exchange("chat", <<>>, sent, ret)
           /\ conversation_history' =
                IF ret = "text" THEN Append(sent, Turn("assistant", turn + 1)) ELSE sent
  /\ UNCHANGED <<program, chat_model, history_file, iterator, notConversation>>

\* SciraChat.clear_history()
SciraChat_clear_history ==
  /\ program \in {"simple_scira_chat", "scira_chat_simple"}
  /\ exchange' = Exchange("clear_history", <<>>, <<>>, "None")
  /\ conversation_history' = <<>>
  /\ UNCHANGED <<program, chat_model, history_file, turn, iterator, notConversation>>

\* what SciraAPI.search_with_history ends with: an iterator that runs to its
\* end, one that raises while chat_mode reads it, None, or the
\* UnboundLocalError of a call whose every attempt raised
SearchEnds == {"stream", "stream raises", "None", "UnboundLocalError"}

\* the 'messages' SciraAPI.search_with_history(query, history) posts
search_with_history_messages(query_message, history) ==
  (IF history # <<>> THEN history ELSE <<>>) \o <<query_message>>

\* one turn of the loop of chat_mode for a query that is not a command;
\* saved tells whether save_conversation_history could write the file
chat_mode_query ==
  /\ program = "chat_mode"
  /\ turn < MaxTurns
  /\ \E end \in SearchEnds, saved \in BOOLEAN :
       LET user_message == Turn("user", turn + 1)
           appended == Append(conversation_history, user_message)
           answered == Append(appended, Turn("assistant", turn + 1))
       IN  /\ turn' = turn + 1
           /\ exchange' = [Exchange("search_with_history", <<>>,
                                    search_with_history_messages(user_message, appended),
                                    IF end \in {"stream", "stream raises"} THEN "iterator" ELSE end)
                             EXCEPT !.save = IF end = "stream"
                                             THEN save_conversation_history(history_file, answered, saved).save
                                             ELSE "not called"]
           /\ conversation_history' =
                CASE end = "None" -> SubSeq(appended, 1, Len(appended) - 1)
                  [] end = "stream" -> answered
                  [] OTHER -> appended
           /\ history_file' = IF end = "stream"
                               THEN save_conversation_history(history_file, answered, saved).file
                               ELSE history_file
           /\ program' = IF end \in {"stream raises", "UnboundLocalError"}
                         THEN "chat_mode exited" ELSE program
  /\ UNCHANGED <<chat_model, iterator, notConversation>>

\* the command clear of chat_mode
chat_mode_clear ==
  /\ program = "chat_mode"
  /\ \E saved \in BOOLEAN :
       LET written == save_conversation_history(history_file, <<>>, saved)
       IN  /\ history_file' = written.file
           /\ exchange' = [Exchange("clear", <<>>, <<>>, "None") EXCEPT !.save = written.save]
  /\ conversation_history' = <<>>
  /\ UNCHANGED <<program, chat_model, turn, iterator, notConversation>>

NextConversation ==
  \/ SciraChatAPI_set_model
  \/ SciraChatAPI_chat_returns
  \/ SciraChatAPI_process_chat_stream
  \/ SciraChatAPI_clear_history
  \/ SciraChat_chat
  \/ SciraChat_clear_history
  \/ chat_mode_query
  \/ chat_mode_clear

SpecConversation == InitConversation /\ [][NextConversation]_vars

\* ------------------------------------------------- claims on conversations
\* the name is one of the full model ids or, whatever its case, a short name
Recognized(name) == name \in FullModelIds \/ lower(name) \in ShortNames

\* C13: SciraChatAPI.set_model raises ValueError when the name is neither a
\* full model id nor, case-insensitively, a short name, and self.model then
\* keeps its previous value.
C13_UnknownModelRaises ==
  (program = "SciraChatAPI" /\ exchange.op = "set_model" /\ ~Recognized(exchange.arg)) =>
    /\ exchange.ret = "ValueError"
    /\ chat_model = exchange.before_model

\* the roles alternate, starting with user
Alternates(h) ==
  \A i \in DOMAIN h : h[i].role = IF i % 2 = 1 THEN "user" ELSE "assistant"

\* C18: in SciraChatAPI, when every iterator chat returned was consumed to its
\* end before the next call, conversation_history alternates user, assistant,
\* ... starting with user, whatever the chats and clear_history calls were.
C18_HistoryAlternates ==
  (program = "SciraChatAPI" /\ ~iterator.abandoned) => Alternates(conversation_history)

\* C19: when chat() of SciraChat returns None, conversation_history is what it
\* was before the call.
C19_FailedExchangeLeavesNoTrace ==
  (program \in {"simple_scira_chat", "scira_chat_simple"}
     /\ exchange.op = "chat" /\ exchange.ret = "None") =>
    conversation_history = exchange.before

\* C20: the messages chat_mode has search_with_history post are the prior
\* conversation followed by a single user message for the current query.
C20_EachQueryOnce ==
  exchange.op = "search_with_history" =>
    exchange.payload = Append(exchange.before, Turn("user", turn))

\* C21: in chat_mode, when search_with_history returns None the history after
\* the turn is the history before it and nothing is written to the history
\* file; when it returns its iterator, exactly one user message and one
\* assistant message are appended and save_conversation_history is called
\* with that history (the file holds it when the write succeeded).
C21_FailedSearchLeavesNoTrace ==
  exchange.op = "search_with_history" =>
    /\ exchange.ret = "None" =>
         /\ conversation_history = exchange.before
         /\ history_file = exchange.file_before
         /\ exchange.save = "not called"
    /\ exchange.ret = "iterator" =>
         /\ conversation_history =
              exchange.before \o <<Turn("user", turn), Turn("assistant", turn)>>
         /\ exchange.save # "not called"
         /\ exchange.save = "written" => history_file = conversation_history

\* ----------------------------------------------- blackbox_request: formatting
\* The body is a sequence of pieces of text: the marker, the punctuation of a
\* JSON array, whole JSON objects and numbers, blanks, newlines and letters.
\* How many pieces a body without structure holds.
MaxPieces == 2

\* the marker $~~~$
MARK == "$~~~$"
\* JSON objects: a search result with all its keys, one with a link only, an
\* answer in the standard format, and one whose webSearch is a number
RESULT_FULL == "{\"title\": \"T\", \"link\": \"L\", \"snippet\": \"S\"}"
RESULT_LINK == "{\"link\": \"M\"}"
ANSWER == "{\"response\": \"R\"}"
ANSWER_BAD_SEARCH == "{\"response\": \"R\", \"webSearch\": 7}"
NUMBER == "7"
LETTER == "t"
\* response_text = None
NoneText == <<"None">>

ObjectPieces == {RESULT_FULL, RESULT_LINK, ANSWER, ANSWER_BAD_SEARCH}
Pieces == ObjectPieces \cup {MARK, "[", "]", ",", NUMBER, LETTER, SPACE, NL}

\* dict.get(key) on the object a piece holds; "absent" when it has no such key
ObjectGet(piece, key) ==
  CASE piece = RESULT_FULL /\ key = "title" -> "T"
    [] piece = RESULT_FULL /\ key = "link" -> "L"
    [] piece = RESULT_FULL /\ key = "snippet" -> "S"
    [] piece = RESULT_LINK /\ key = "link" -> "M"
    [] piece \in {ANSWER, ANSWER_BAD_SEARCH} /\ key = "response" -> "R"
    [] piece = ANSWER_BAD_SEARCH /\ key = "webSearch" -> NUMBER
    [] OTHER -> "absent"

\* JSON values
BBNumber == [t |-> "number", piece |-> NUMBER, items |-> <<>>]
BBObject(piece) == [t |-> "object", piece |-> piece, items |-> <<>>]
BBArray(items) == [t |-> "array", piece |-> "", items |-> items]
BBFail == [ok |-> FALSE, val |-> BBNumber, next |-> 0]
BBOk(val, next) == [ok |-> TRUE, val |-> val, next |-> next]

\* json.loads skips whitespace between tokens
RECURSIVE BBSkipWs(_, _)
BBSkipWs(s, i) ==
  IF i <= Len(s) /\ s[i] \in {SPACE, NL} THEN BBSkipWs(s, i + 1) ELSE i

\* the digits of one number stand next to each other
RECURSIVE BBSkipDigits(_, _)
BBSkipDigits(s, i) ==
  IF i <= Len(s) /\ s[i] = NUMBER THEN BBSkipDigits(s, i + 1) ELSE i

\* json.loads: one value starting at i, and the items of an array
RECURSIVE BBValue(_, _)
RECURSIVE BBItems(_, _, _)
BBValue(s, i) ==
  LET j == BBSkipWs(s, i)
  IN  IF j > Len(s) THEN BBFail
      ELSE IF s[j] = NUMBER THEN BBOk(BBNumber, BBSkipDigits(s, j))
      ELSE IF s[j] \in ObjectPieces THEN BBOk(BBObject(s[j]), j + 1)
      ELSE IF s[j] = "["
      THEN LET k == BBSkipWs(s, j + 1)
           IN  IF k <= Len(s) /\ s[k] = "]" THEN BBOk(BBArray(<<>>), k + 1)
               ELSE BBItems(s, j + 1, <<>>)
      ELSE BBFail

BBItems(s, i, acc) ==
  LET v == BBValue(s, i)
      k == BBSkipWs(s, v.next)
  IN  IF ~v.ok \/ k > Len(s) THEN BBFail
      ELSE IF s[k] = "," THEN BBItems(s, k + 1, Append(acc, v.val))
      ELSE IF s[k] = "]" THEN BBOk(BBArray(Append(acc, v.val)), k + 1)
      ELSE BBFail

\* json.loads(text): the value, or JSONDecodeError
blackbox_json_loads(s) ==
  LET v == BBValue(s, 1)
  IN  IF v.ok /\ BBSkipWs(s, v.next) > Len(s) THEN v ELSE BBFail

\* re.search(r'\$~~~\$(.*?)\$~~~\$', text) from piece i on: the leftmost
\* marker that is followed, with no newline in between ('.' matches none), by
\* another marker; the group is what lies between them
RECURSIVE re_search(_, _)
re_search(s, i) ==
  LET a == IndexOfFrom(s, MARK, i)
      b == IndexOfFrom(s, MARK, a + 1)
  IN  IF a = 0 \/ b = 0 THEN [found |-> FALSE, group |-> <<>>]
      ELSE IF \E k \in (a + 1)..(b - 1) : s[k] = NL THEN re_search(s, b)
      ELSE [found |-> TRUE, group |-> SubSeq(s, a + 1, b - 1)]

\* text.split('$~~~$')
RECURSIVE split_markers(_)
split_markers(s) ==
  LET a == IndexOf(s, MARK)
  IN  IF a = 0 THEN <<s>>
      ELSE <<SubSeq(s, 1, a - 1)>> \o split_markers(SubSeq(s, a + 1, Len(s)))

\* what a try body ends with: a returned dict, or an exception
Return(text, results) == [response |-> text, web_search |-> results, raised |-> "none"]
Raise(exception) == [response |-> <<>>, web_search |-> <<>>, raised |-> exception]

\* result.get(key, default)
GetOr(piece, key, default) ==
  IF ObjectGet(piece, key) = "absent" THEN default ELSE ObjectGet(piece, key)

\* the entry built for one element of the embedded array
formatted_web_result(piece) ==
  [title |-> GetOr(piece, "title", "No Title"),
   url |-> GetOr(piece, "link", "No URL"),
   snippet |-> GetOr(piece, "snippet", "No snippet available")]

\* the body of the outer try: the standard JSON format
standard_format(s) ==
  LET v == blackbox_json_loads(s)
  IN  IF s = NoneText THEN Raise("TypeError")
      ELSE IF ~v.ok THEN Raise("JSONDecodeError")
      \* "response" not in response_data
      ELSE IF v.val.t = "number" THEN Raise("TypeError")
      ELSE IF v.val.t = "array" THEN Return(<<"Error: Invalid response format">>, <<>>)
      ELSE IF ObjectGet(v.val.piece, "response") = "absent"
      THEN Return(<<"Error: Invalid response format">>, <<>>)
      \* for result in response_data["webSearch"]
      ELSE IF ObjectGet(v.val.piece, "webSearch") = NUMBER THEN Raise("TypeError")
      ELSE Return(<<ObjectGet(v.val.piece, "response")>>, <<>>)

\* the body of the inner try: text with embedded web search results
embedded_format(s) ==
  LET web_search_match == re_search(s, 1)
      v == blackbox_json_loads(web_search_match.group)
      text_parts == split_markers(s)
      main_text == IF Len(text_parts) > 2 THEN Strip(text_parts[3])
                   ELSE <<"No response text found.">>
  IN  IF ~web_search_match.found THEN Return(s, <<>>)
      ELSE IF ~v.ok THEN Raise("JSONDecodeError")
      \* for result in web_search_results: result.get(...)
      ELSE IF v.val.t = "number" THEN Raise("TypeError")
      ELSE IF v.val.t = "object" THEN Raise("AttributeError")
      ELSE IF \E k \in DOMAIN v.val.items : v.val.items[k].t # "object"
      THEN Raise("AttributeError")
      ELSE Return(main_text,
                  [k \in DOMAIN v.val.items |-> formatted_web_result(v.val.items[k].piece)])

\* except Exception as e
ErrorProcessing(exception) == Return(<<"Error processing response: ", exception>>, <<>>)

\* format_response_json(response_text)
format_response_json(s) ==
  LET a == standard_format(s)
      b == embedded_format(s)
  IN  IF a.raised = "none" THEN a
      ELSE IF a.raised = "JSONDecodeError"
      THEN IF b.raised = "none" THEN b ELSE ErrorProcessing(b.raised)
      ELSE ErrorProcessing(a.raised)

\* what stands between the markers, and after them
EmbeddedTexts ==
  {<<"[", "]">>,
   <<"[", RESULT_FULL, "]">>,
   <<"[", RESULT_FULL, ",", SPACE, RESULT_LINK, "]">>,
   <<"[", NL, RESULT_FULL, NL, "]">>,
   <<"[", NUMBER, "]">>,
   <<"[", RESULT_FULL>>,
   <<RESULT_FULL>>}

FollowingTexts ==
  {<<>>, <<LETTER>>, <<SPACE, LETTER, NL>>, <<LETTER, NL, LETTER>>, <<LETTER, MARK, LETTER>>}

RECURSIVE PieceSeqs(_)
PieceSeqs(n) ==
  IF n = 0 THEN {<<>>}
  ELSE PieceSeqs(n - 1) \cup {Append(s, p) : s \in PieceSeqs(n - 1), p \in Pieces}

\* the bodies format_response_json is given
ResponseTexts ==
  {NoneText}
    \cup PieceSeqs(MaxPieces)
    \cup {before \o <<MARK>> \o e \o <<MARK>> \o f :
            before \in {<<>>, <<LETTER>>}, e \in EmbeddedTexts, f \in FollowingTexts}

InitBlackbox ==
  /\ IdleStream
  /\ IdleRetry
  /\ IdleAuth
  /\ IdleApp
  /\ IdleConversation
  /\ IdleZai
  /\ response_text \in ResponseTexts
  /\ formatted = [response |-> <<>>, web_search |-> <<>>, phase |-> "idle"]

\* the call of format_response_json(response_text)
blackbox_format_response ==
  /\ formatted.phase = "idle"
  /\ LET r == format_response_json(response_text)
     IN  formatted' = [response |-> r.response, web_search |-> r.web_search,
                       phase |-> IF r.raised = "none" THEN "returned" ELSE "raised"]
  /\ UNCHANGED <<response_text, notBlackbox>>

NextBlackbox ==
  \/ blackbox_format_response

SpecBlackbox == InitBlackbox /\ [][NextBlackbox]_vars

\* ------------------------------------------------ claims on the formatting
\* the body is not JSON
NonJson(s) == s # NoneText /\ ~blackbox_json_loads(s).ok

\* the body is $~~~$<JSON array>$~~~$<text>
MarkedForm(s) ==
  /\ Len(s) >= 2
  /\ s[1] = MARK
  /\ LET b == IndexOfFrom(s, MARK, 2)
     IN  /\ b # 0
         /\ blackbox_json_loads(SubSeq(s, 2, b - 1)).ok
         /\ blackbox_json_loads(SubSeq(s, 2, b - 1)).val.t = "array"

EmbeddedArray(s) == blackbox_json_loads(SubSeq(s, 2, IndexOfFrom(s, MARK, 2) - 1)).val.items
TextAfterMarkers(s) == SubSeq(s, IndexOfFrom(s, MARK, 2) + 1, Len(s))

\* the body holds fewer than two markers
NoMarkerPair(s) == IndexOf(s, MARK) = 0 \/ IndexOfFrom(s, MARK, IndexOf(s, MARK) + 1) = 0

\* C14: for a non-JSON body $~~~$<JSON array>$~~~$<text>, format_response_json
\* returns the stripped text and one {title, url, snippet} entry per element of
\* the array, in order, url being the element's link; for a non-JSON body
\* without the marker pair it returns the body and no entry; for every input
\* it returns a dict with response and web_search and never raises.
C14_EmbeddedMarkersDecoded ==
  formatted.phase # "idle" =>
    /\ formatted.phase = "returned"
    /\ (NonJson(response_text) /\ MarkedForm(response_text)) =>
         /\ formatted.response = Strip(TextAfterMarkers(response_text))
         /\ Len(formatted.web_search) = Len(EmbeddedArray(response_text))
         /\ \A k \in DOMAIN EmbeddedArray(response_text) :
              EmbeddedArray(response_text)[k].t = "object" =>
                formatted.web_search[k] =
                  formatted_web_result(EmbeddedArray(response_text)[k].piece)
    /\ (NonJson(response_text) /\ NoMarkerPair(response_text)) =>
         /\ formatted.response = response_text
         /\ formatted.web_search = <<>>

\* ------------------------------------------------- zai_client: SSE decoding
\* How many lines a response text holds.
MaxSseLines == 3

\* The payloads of the lines, as json.loads reads them: text that is no JSON,
\* a JSON number, and frames {"data": {"type": ..., "data": {...}}}. A key a
\* frame does not hold is "absent".
\* the frame has no key result
NoResult == <<"absent">>

Frame(type, content, done, name, found) ==
  [json |-> "object", type |-> type, content |-> content, done |-> done,
   name |-> name, result |-> found]
NotJson == [json |-> "invalid", type |-> "", content |-> "absent", done |-> "absent",
            name |-> "absent", result |-> NoResult]
JsonNumber == [NotJson EXCEPT !.json = "number"]

Completion(content, done) == Frame("chat:completion", content, done, "absent", NoResult)
ToolResult(name, found) == Frame("tool_result", "absent", "absent", name, found)
ToolCall(name) == Frame("tool_call", "absent", "absent", name, NoResult)

Payloads ==
  {NotJson, JsonNumber,
   Completion("a", "false"), Completion("b", "true"), Completion("", "true"),
   Completion("absent", "true"), Completion("a", "absent"),
   ToolResult("browser_multi_search", <<"r1">>), ToolResult("browser_multi_search", <<"r2">>),
   ToolResult("other", <<"r2">>), ToolCall("msearch")}

\* a line of the response text: what stands before the payload, and the payload
SseLine(prefix, payload) == [prefix |-> prefix, payload |-> payload]

SseLines ==
  {SseLine(<<"d", "a", "t", "a", ":", " ">>, p) : p \in Payloads}
    \cup {SseLine(<<"d", "a", "t", "a", ":">>, Completion("b", "true")),
          SseLine(<<" ", "d", "a", "t", "a", ":", " ">>, Completion("a", "false")),
          SseLine(<<"e", "v", "e", "n", "t", ":", " ">>, Completion("b", "true")),
          SseLine(<<>>, NotJson)}

\* line.strip().startswith('data:')
starts_with_data(line) ==
  LET p == Strip(line.prefix)
  IN  Len(p) >= 5 /\ SubSeq(p, 1, 5) = <<"d", "a", "t", "a", ":">>

\* json.loads(line[6:]) of the stripped line: the payload when six characters
\* stand before it, no JSON when the slice cuts into the payload
sliced_payload(line) ==
  IF Len(LStrip(line.prefix, {SPACE, FORMFEED, NL})) = 6 THEN line.payload ELSE NotJson

\* the lines kept, in order
RECURSIVE data_lines(_)
data_lines(lines) ==
  IF lines = <<>> THEN <<>>
  ELSE IF starts_with_data(Head(lines))
       THEN <<sliced_payload(Head(lines))>> \o data_lines(Tail(lines))
       ELSE data_lines(Tail(lines))

\* 'data' in data raises TypeError for a number, inside a try that catches
\* JSONDecodeError and KeyError only
raises_type_error(frames) == \E k \in DOMAIN frames : frames[k].json = "number"

\* first pass: the result of the last tool_result named browser_multi_search
RECURSIVE web_search_results(_, _)
web_search_results(frames, found) ==
  IF frames = <<>> THEN found
  ELSE web_search_results(
         Tail(frames),
         IF /\ Head(frames).json = "object"
            /\ Head(frames).type = "tool_result"
            /\ Head(frames).result # NoResult
            /\ Head(frames).name = "browser_multi_search"
         THEN Head(frames).result ELSE found)

\* second pass: the content of the last frame that passes the test, "" (which
\* is as false as None) when there is none
RECURSIVE last_content(_, _)
last_content(frames, needs_done) ==
  IF frames = <<>> THEN ""
  ELSE LET f == frames[Len(frames)]
       IN  IF /\ f.json = "object"
              /\ f.type = "chat:completion"
              /\ f.content # "absent"
              /\ (needs_done => f.done = "true")
           THEN f.content
           ELSE last_content(SubSeq(frames, 1, Len(frames) - 1), needs_done)

\* _parse_sse_response(response_text)
parse_sse_response(lines) ==
  LET frames == data_lines(lines)
      final_done == last_content(frames, TRUE)
      final_content == IF final_done # "" THEN final_done ELSE last_content(frames, FALSE)
  IN  IF raises_type_error(frames)
      THEN [content |-> "Error parsing response", results |-> <<>>]
      ELSE IF final_content = ""
      THEN [content |-> "No content found in response", results |-> <<>>]
      ELSE [content |-> final_content, results |-> web_search_results(frames, <<>>)]

RECURSIVE SseTexts(_)
SseTexts(n) ==
  IF n = 0 THEN {<<>>}
  ELSE SseTexts(n - 1) \cup {Append(s, l) : s \in SseTexts(n - 1), l \in SseLines}

InitZai ==
  /\ IdleStream
  /\ IdleRetry
  /\ IdleAuth
  /\ IdleApp
  /\ IdleConversation
  /\ IdleBlackbox
  /\ sse_lines \in SseTexts(MaxSseLines)
  /\ sse_parsed = [content |-> "none", results |-> <<>>, phase |-> "idle"]

\* the call of _parse_sse_response
ZaiClient_parse_sse_response ==
  /\ sse_parsed.phase = "idle"
  /\ LET r == parse_sse_response(sse_lines)
     IN  sse_parsed' = [content |-> r.content, results |-> r.results, phase |-> "returned"]
  /\ UNCHANGED <<sse_lines, notZai>>

NextZai ==
  \/ ZaiClient_parse_sse_response

SpecZai == InitZai /\ [][NextZai]_vars

\* -------------------------------------------------- claims on the SSE decoding
\* the payloads of the lines of the form 'data: <payload>'
DataPayloads(lines) ==
  LET kept == SelectSeq(lines, LAMBDA l : l.prefix = <<"d", "a", "t", "a", ":", " ">> \/ l.prefix = <<" ", "d", "a", "t", "a", ":", " ">>)
  IN  [k \in DOMAIN kept |-> kept[k].payload]

Completions(frames) ==
  SelectSeq(frames, LAMBDA f : f.json = "object" /\ f.type = "chat:completion"
                                 /\ f.content # "absent")

Last(s) == s[Len(s)]

\* what the claim says is returned, when 'has content' is read as holding the
\* key (1) or as holding text that is not empty (2)
ClaimedParse(lines, reading) ==
  LET frames == DataPayloads(lines)
      all == Completions(frames)
      with_content == IF reading = 1 THEN all ELSE SelectSeq(all, LAMBDA f : f.content # "")
      finished == SelectSeq(with_content, LAMBDA f : f.done = "true")
      searches == SelectSeq(frames, LAMBDA f : /\ f.json = "object"
                                               /\ f.type = "tool_result"
                                               /\ f.name = "browser_multi_search"
                                               /\ f.result # NoResult)
      results == IF searches = <<>> THEN <<>> ELSE Last(searches).result
  IN  IF finished # <<>> THEN [content |-> Last(finished).content, results |-> results]
      ELSE IF with_content # <<>>
      THEN [content |-> Last(with_content).content, results |-> results]
      ELSE [content |-> "No content found in response", results |-> <<>>]

\* C15: _parse_sse_response considers the 'data: <payload>' lines only; it
\* returns the content of the last chat:completion frame whose done flag is
\* true, else that of the last chat:completion frame that has content, else
\* 'No content found in response' with no result; the results are those of
\* the last tool_result frame named browser_multi_search.
C15_SseDecoded ==
  sse_parsed.phase = "returned" =>
    \E reading \in {1, 2} :
      /\ sse_parsed.content = ClaimedParse(sse_lines, reading).content
      /\ sse_parsed.results = ClaimedParse(sse_lines, reading).results

\* ------------------------------------------------ several web clients
\* the browsers that talk to the application
WebClients == {"A", "B", "C"}

\* the models they talk to: two whose clients post their whole history, one
\* whose client posts the current message only, and two that keep no history
SharedModelIds == {"scira-default", "qwen", "mistral-small", "uncovr", "chatgot"}

ChatBodies(ids) ==
  {[shape |-> "object", model_id |-> Arg(i), message |-> Arg("hi")] : i \in ids}

ClearBodies(ids) ==
  {[shape |-> "object", model_id |-> Arg(i), message |-> Absent] : i \in ids}

\* POST /api/chat from any of the web clients, served by one process
shared_chat == chat_by(ChatBodies(SharedModelIds), {1}, WebClients)

\* POST /api/clear from any of the web clients
shared_clear_history == clear_by(ClearBodies(SharedModelIds), {1}, WebClients)

NextShared ==
  \/ shared_chat
  \/ shared_clear_history

SpecShared == InitApp /\ [][NextShared]_vars

\* ------------------------------------------- the application under gunicorn
\* POST /api/chat, served by whichever sync worker accepts the connection
gunicorn_chat == chat_by(ChatBodies({"scira-default"}), Workers, {"A"})

\* POST /api/clear, served by whichever sync worker accepts the connection
gunicorn_clear_history == clear_by(ClearBodies({"scira-default"}), Workers, {"A"})

NextGunicorn ==
  \/ gunicorn_chat
  \/ gunicorn_clear_history

SpecGunicorn == InitApp /\ [][NextGunicorn]_vars

\* ------------------------------------------------- claims on shared clients
\* C16: a message one web client sent through POST /api/chat never appears in
\* the payload built for another web client's later request to the same model.
C16_WebClientsIsolated ==
  \A c \in called :
    \A k \in DOMAIN c.payload : c.payload[k].sender = request.sender

\* C17: once POST /api/clear has answered success for a model, no later POST
\* /api/chat for that model, whichever worker serves it, posts a message sent
\* before the clear.
C17_ClearReachesEveryWorker ==
  \A c \in called :
    \A k \in DOMAIN c.payload : ~c.payload[k].old
=============================================================================
